---- MODULE Spec2Model ----
(***************************************************************************)
(* Ledger-consistency core of the custodial wallet backend: wallet         *)
(* balances and ledger rows (wallet_balances / wallet_ledger), deposit     *)
(* intents (crypto_deposits), staking positions and airdrop rounds,        *)
(* referral events and claims, reward credits.                             *)
(*                                                                         *)
(* Database model.  The store is MySQL/InnoDB at its default isolation     *)
(* level (no statement in the sources changes it):                         *)
(*   - a statement issued on the pool (db.query) is one atomic step;       *)
(*   - a transaction whose first access to the contended rows is a         *)
(*     locking read (SELECT ... FOR UPDATE) or a write is one atomic step  *)
(*     taken at its commit: the row locks exclude every conflicting        *)
(*     statement between the lock and the commit;                          *)
(*   - a plain SELECT inside a transaction is a consistent read of the     *)
(*     snapshot taken at the transaction's first plain SELECT, so a        *)
(*     handler that reads that way is split into a read step and a write   *)
(*     step, and other transactions may commit in between;                 *)
(*   - the assignments of a single-table UPDATE are evaluated left to      *)
(*     right, a later assignment seeing the columns already assigned.      *)
(*                                                                         *)
(* Amounts are integers: USDT amounts in whole USDT, VPK amounts in whole  *)
(* VPK.  Wallet, deposit and staking inputs are chosen so that every       *)
(* product and quotient the code computes on them is integral.  Referral   *)
(* shares are rounded at the unit where the code rounds at 2 or 8          *)
(* decimals, and the PHP to USDT conversion of a claim is truncated to the *)
(* unit.                                                                   *)
(***************************************************************************)
EXTENDS Integers, Sequences, FiniteSets, Bags, TLC

(***************************************************************************)
(* Bounds of the model (not program constants).                            *)
(***************************************************************************)
MaxDeposits == 1
MaxLedger == 6
MaxLogs == 2
MaxCredits == 1
MaxRefEvents == 2
MaxPositions == 3
MaxAwardEvents == 4
\* deposit ledger rows of one intent up to which the sweeper script is followed
MaxDepositRows == 2
\* deposit intents up to which concurrent creation requests are followed
MaxIntents == 2
\* split transfers of one position up to which the retry task is followed
MaxSends == 2
MaxEmails == 2

Users == {1, 2, 3, 4}
\* the users who send requests in the wallet, reward, referral-claim and
\* staking specifications
Actors == {1, 2}
Assets == {"USDT", "VPK"}
SwapReqs == {1, 2}
ClaimReqs == {1, 2}
NotifyReqs == {1, 2}
Stages == {"assigned", "eligible", "credited"}
RefReqs == {1, 2}
UseReqs == {1, 2}
AwardReqs == {1, 2}
StakeReqs == {1, 2}
SweepCallers == {"trigger", "loop"}

(***************************************************************************)
(* Program constants.                                                      *)
(***************************************************************************)
RATE_USDT_TO_VPK == 100
BANK_SEND_FEE_USDT == 1
MAX_NETWORK_FEE_USDT == 1
BSC_REQUIRED_CONFS == 12
REFEREE_DEPOSIT_MIN == 10
USDT_PHP_RATE == 58
STAKE_UNIT_USDT == 9
DEFAULT_MULT == 3
STAKE_UNIT_VPK == 900
AIRDROP_TRIGGER_UNITS == 60
AIRDROP_REWARD_UNITS == 6
OLD_PICK == 6
NEW_PICK == 4
REF_MIN_PHP == 50
REF_MIN_USDT == 1
\* REF_CONVERSION_RATE 0.005 and REF_STAKING_RATE 0.10 as fractions
REF_CONVERSION_RATE == <<5, 1000>>
REF_STAKING_RATE == <<1, 10>>
\* level shares 4.5, 2.5, 1.5, company share 1.5 and their total 10, in tenths
LVL_SHARE == <<45, 25, 15>>
COMPANY_SHARE == 15
TOTAL_SHARE == 100
\* the company wallet user id; 0 (none) unless the environment sets it
REF_COMPANY_USER_ID == 0

\* SQL NULL in a numeric column or argument
NULL == 0 - 1

VARIABLES
    bal,        \* wallet_balances: [user, asset] -> balance (absent row = 0)
    ledger,     \* wallet_ledger: bag of rows
    deposits,   \* crypto_deposits: sequence of rows, id = index
    createReq,  \* in-flight deposit-intent creation requests
    swapReq,    \* in-flight wallet-router swap requests
    credits,    \* reward_credits: sequence of rows, id = index
    referrer,   \* users.referrer_id (0 = NULL)
    scan,       \* chain watcher: position in the batch of transfer logs
    sweeper,    \* standalone sweeper script: position in its row list
    chainTx,    \* hot-wallet split transfers broadcast on chain, per position
    sweepReq,   \* the server's sweep attempts in flight, of the post-credit trigger and of the sweep loop
    claimReq,   \* in-flight reward-credit claim requests
    evalReq,    \* a reward-credit evaluation pass outside a transaction
    notified,   \* reward_credits.*_notified_at: per credit, the stages marked notified
    emails,     \* mails accepted by sendMail, counted per credit and stage
    notifyReq,  \* in-flight notifyRewardCreditEmailsForUser calls
    useReq,     \* in-flight use-code requests
    refEvents,  \* referral_events: sequence of rows, id = index
    refClaims,  \* referral_claims: sequence of rows, id = index
    refReq,     \* in-flight referral claim requests
    awardReq,   \* in-flight awardReferral calls
    positions,  \* staking_positions: sequence of rows, id = index
    airdrops,   \* staking_airdrops: sequence of rows, id = index
    recipients, \* staking_airdrop_recipients: sequence of rows, id = index
    splits,     \* stake_split_transfers: set of rows (position, status)
    stakeReq    \* in-flight stake-open / airdrop-run requests

walletVars == <<bal, ledger>>
notifyVars == <<notified, emails, notifyReq>>
rewardVars == <<credits, claimReq, evalReq, notifyVars>>
referralVars == <<referrer, useReq, refEvents, refClaims, refReq, awardReq>>
stakingVars == <<positions, airdrops, recipients, splits, chainTx, stakeReq>>
vars == <<bal, ledger, deposits, createReq, swapReq, scan, sweeper, sweepReq,
          rewardVars, referralVars, stakingVars>>

(***************************************************************************)
(* Helpers                                                                 *)
(***************************************************************************)
Min(a, b) == IF a <= b THEN a ELSE b
Max(a, b) == IF a >= b THEN a ELSE b

NullRef == [tag |-> "null", id |-> 0]
NumRef(n) == [tag |-> "id", id |-> n]

Row(u, a, t, amt, ref) ==
    [user |-> u, asset |-> a, type |-> t, amount |-> amt, ref |-> ref]

\* INSERT INTO wallet_ledger
Append1(l, row) == l (+) SetToBag({row})

\* INSERT INTO wallet_balances ... ON DUPLICATE KEY UPDATE balance = balance + VALUES(balance)
Upsert(b, u, a, delta) == [b EXCEPT ![<<u, a>>] = @ + delta]

LedgerSize == BagCardinality(ledger)

\* classification of ledger types at read time (wallet router, GET /v1/wallet/ledger)
PLUS == {"deposit", "refund", "transfer_in", "stake_payout", "stake_refund",
         "stake_referral", "referral_reward", "referral_bonus", "swap_in"}
MINUS == {"withdraw", "transfer_out", "purchase", "fee", "stake_lock", "swap_out"}

Signed(type, base) ==
    IF type \in PLUS THEN base
    ELSE IF type \in MINUS THEN 0 - base
    ELSE base

RECURSIVE SumSigned(_, _)
SumSigned(l, S) ==
    IF S = {} THEN 0
    ELSE LET r == CHOOSE x \in S : TRUE
         IN  l[r] * Signed(r.type, r.amount) + SumSigned(l, S \ {r})

\* signed sum of the ledger entries of (u, a)
LedgerBalance(l, u, a) ==
    SumSigned(l, {r \in DOMAIN l : r.user = u /\ r.asset = a})

\* number of ledger rows of a type with a ref
RowCount(l, t, ref) ==
    BagCardinality([r \in {x \in DOMAIN l : x.type = t /\ x.ref = ref} |-> l[r]])

(***************************************************************************)
(* Reward-credit evaluation (lib/reward_credits.js).  Only the conditions  *)
(* the admin grant can set are modelled: deposit_usdt_min and              *)
(* referrals_min, with deposit_source 'any'.  A credit row carries         *)
(* expired = (expires_at IS NOT NULL AND expires_at <= NOW()).             *)
(***************************************************************************)
RECURSIVE SumAmount(_, _)
SumAmount(l, S) ==
    IF S = {} THEN 0
    ELSE LET r == CHOOSE x \in S : TRUE
         IN  l[r] * r.amount + SumAmount(l, S \ {r})

\* getDepositTotals(...).any
getDepositTotals(l, u) ==
    SumAmount(l, {r \in DOMAIN l : r.user = u /\ r.type = "deposit" /\ r.asset = "USDT"})

\* getReferralDepositProgress(...).eligibleCount
getReferralDepositProgress(l, ref, u, need) ==
    Cardinality({v \in Users : ref[v] = u /\ getDepositTotals(l, v) >= need})

CondOk_counted(c, l, ref) ==
    /\ (c.depMin <= 0 \/ getDepositTotals(l, c.user) >= c.depMin)
    /\ (c.refMin <= 0 \/ getReferralDepositProgress(l, ref, c.user, 0) >= c.refMin)

\* depositOk && refOk
CondOk(c, l, ref) ==
    /\ (c.depMin <= 0 \/ getDepositTotals(l, c.user) >= c.depMin)
    /\ (c.refMin <= 0 \/
        getReferralDepositProgress(l, ref, c.user, REFEREE_DEPOSIT_MIN) >= c.refMin)

EvalRow_byId(snap, cur, l, ref) ==
    IF CondOk(snap, l, ref)
    THEN IF snap.status # "claimable"
         THEN [cur EXCEPT !.status = "claimable"]
         ELSE cur
    ELSE IF snap.status = "claimable"
         THEN [cur EXCEPT !.status = "locked"]
         ELSE cur

\* one iteration of the loop: the decision is taken on the row as selected
\* (snap), the UPDATE's WHERE clause is evaluated on the current row (cur)
EvalRow(snap, cur, l, ref) ==
    IF CondOk(snap, l, ref)
    THEN IF snap.status # "claimable" /\ cur.status \in {"locked", "claimable"}
         THEN [cur EXCEPT !.status = "claimable"]
         ELSE cur
    ELSE IF snap.status = "claimable" /\ cur.status = "claimable"
         THEN [cur EXCEPT !.status = "locked"]
         ELSE cur

evaluateRewardCreditsForUser(snapCr, curCr, l, ref, u) ==
    [i \in DOMAIN curCr |->
        IF /\ i \in DOMAIN snapCr
           /\ snapCr[i].user = u
           /\ snapCr[i].status \in {"locked", "claimable"}
           /\ ~snapCr[i].expired
        THEN EvalRow(snapCr[i], curCr[i], l, ref)
        ELSE curCr[i]]

(***************************************************************************)
(* Deposit intents: creation and the credit helper                         *)
(***************************************************************************)
Idle == [pc |-> "idle"]

RECURSIVE MaxIdx(_, _)
MaxIdx(ds, i) ==
    IF i = 0 THEN 0 - 1 ELSE Max(ds[i].idx, MaxIdx(ds, i - 1))

\* POST /v1/deposits/crypto, first statement: SELECT IFNULL(MAX(address_index), -1) + 1
CreateIntentRead(r, u, cap) ==
    /\ createReq[r] = Idle
    /\ Len(deposits) < cap
    /\ createReq' = [createReq EXCEPT ![r] =
           [pc |-> "insert", user |-> u, idx |-> MaxIdx(deposits, Len(deposits)) + 1]]
    /\ UNCHANGED <<bal, ledger, deposits, swapReq, rewardVars, referralVars, stakingVars, scan, sweeper, sweepReq>>

\* POST /v1/deposits/crypto, second statement: INSERT INTO crypto_deposits
CreateIntentInsert(r, cap) ==
    /\ createReq[r].pc = "insert"
    /\ Len(deposits) < cap
    /\ deposits' = Append(deposits,
           [user |-> createReq[r].user, status |-> "pending", conf |-> 0,
            req |-> BSC_REQUIRED_CONFS, amt |-> NULL, idx |-> createReq[r].idx,
            swept |-> 0, sweep_status |-> "null"])
    /\ createReq' = [createReq EXCEPT ![r] = Idle]
    /\ UNCHANGED <<bal, ledger, swapReq, rewardVars, referralVars, stakingVars, scan, sweeper, sweepReq>>

\* the creation request followed while fewer than MaxDeposits intents exist
CreateDepositRead(r, u) == CreateIntentRead(r, u, MaxDeposits)

CreateDepositInsert(r) == CreateIntentInsert(r, MaxDeposits)

Coalesce_last(old, new) == new

\* COALESCE(amount_received, ?): the stored amount if there is one
Coalesce(old, new) == IF old = NULL THEN new ELSE old

DbState(b, l, ds) == [bal |-> b, ledger |-> l, deposits |-> ds]

AlreadyCredited_never(l, depositId) == FALSE

\* SELECT id FROM wallet_ledger WHERE type='deposit' AND ref_id=? LIMIT 1
AlreadyCredited(l, depositId) == RowCount(l, "deposit", NumRef(depositId)) > 0

\* creditDepositAndWebhook of the server and of the chain watcher: one
\* transaction that starts by locking the intent row
creditDepositAndWebhook(b, l, ds, depositId, amount) ==
    IF depositId \notin DOMAIN ds
    THEN DbState(b, l, ds)                              \* deposit_not_found
    ELSE LET dep == ds[depositId]
             amtNum == IF amount # NULL THEN amount ELSE dep.amt
         IN  IF AlreadyCredited(l, depositId)
             THEN DbState(b, l, ds)                     \* already credited, skip
             ELSE IF amtNum <= 0
             THEN DbState(b, l, ds)                     \* invalid_amount, rollback
             ELSE DbState(
                    Upsert(b, dep.user, "USDT", amtNum),
                    Append1(l, Row(dep.user, "USDT", "deposit", amtNum, NumRef(depositId))),
                    [ds EXCEPT ![depositId] =
                        [@ EXCEPT !.status = "credited",
                                  !.amt = Coalesce(@, amtNum),
                                  !.conf = Max(@, dep.req)]])

\* how a call of creditDepositAndWebhook ends: a commit that credits, a commit
\* that skips, or a rollback that throws
CreditOutcome(l, ds, depositId, amount) ==
    IF depositId \notin DOMAIN ds THEN "deposit_not_found"
    ELSE IF AlreadyCredited(l, depositId) THEN "skip"
    ELSE IF (IF amount # NULL THEN amount ELSE ds[depositId].amt) <= 0 THEN "invalid_amount"
    ELSE "credited"

\* creditWalletTxDb of the mock routes: the same transaction, with the amount
\* taken as given and the confirmations raised to the argument
creditWalletTxDb(b, l, ds, depositId, amount, required) ==
    IF depositId \notin DOMAIN ds
    THEN DbState(b, l, ds)                              \* deposit_not_found
    ELSE LET dep == ds[depositId]
         IN  IF AlreadyCredited(l, depositId)
             THEN DbState(b, l, ds)                     \* commit, no-op
             ELSE DbState(
                    Upsert(b, dep.user, "USDT", amount),
                    Append1(l, Row(dep.user, "USDT", "deposit", amount, NumRef(depositId))),
                    [ds EXCEPT ![depositId] =
                        [@ EXCEPT !.status = "credited",
                                  !.amt = Coalesce(@, amount),
                                  !.conf = Max(@, required)]])

MockCreditOutcome(l, ds, depositId) ==
    IF depositId \notin DOMAIN ds THEN "deposit_not_found"
    ELSE IF AlreadyCredited(l, depositId) THEN "skip"
    ELSE "credited"

\* POST /dev/deposits/:id/credit of the mock routes
MockDevCredit(depositId, amount) ==
    /\ depositId \in DOMAIN deposits
    /\ LedgerSize < MaxLedger
    /\ LET out == creditWalletTxDb(bal, ledger, deposits, depositId, amount,
                                   BSC_REQUIRED_CONFS)
       IN  /\ bal' = out.bal
           /\ ledger' = out.ledger
           /\ deposits' = out.deposits
    /\ UNCHANGED <<createReq, swapReq, rewardVars, referralVars, stakingVars, scan, sweeper, sweepReq>>

\* POST /admin/deposits/:id/credit and POST /dev/deposits/:id/credit
ServerCredit(depositId, amount) ==
    /\ depositId \in DOMAIN deposits
    /\ LedgerSize < MaxLedger
    /\ LET out == creditDepositAndWebhook(bal, ledger, deposits, depositId, amount)
       IN  /\ bal' = out.bal
           /\ ledger' = out.ledger
           /\ deposits' = out.deposits
    /\ UNCHANGED <<createReq, swapReq, rewardVars, referralVars, stakingVars, scan, sweeper, sweepReq>>

(***************************************************************************)
(* Wallet: swap, transfer                                                  *)
(***************************************************************************)
\* amount credited in the target asset
SwapOut(fromAsset, fromAmount) ==
    IF fromAsset = "USDT" THEN fromAmount * RATE_USDT_TO_VPK
    ELSE fromAmount \div RATE_USDT_TO_VPK

Other(asset) == IF asset = "USDT" THEN "VPK" ELSE "USDT"

\* the four writes of a swap: debit, credit, swap_out row, swap_in row
SwapBal(b, u, fromAsset, fromAmount) ==
    Upsert(Upsert(b, u, fromAsset, 0 - fromAmount),
           u, Other(fromAsset), SwapOut(fromAsset, fromAmount))

SwapLedger(l, u, fromAsset, fromAmount) ==
    Append1(Append1(l, Row(u, fromAsset, "swap_out", fromAmount, NullRef)),
            Row(u, Other(fromAsset), "swap_in", SwapOut(fromAsset, fromAmount), NullRef))

\* app.post('/v1/wallet/swap'): the balance row is read FOR UPDATE
ServerSwap(u, fromAsset, fromAmount) ==
    /\ fromAmount > 0
    /\ LedgerSize + 2 <= MaxLedger
    /\ IF bal[<<u, fromAsset>>] < fromAmount
       THEN UNCHANGED walletVars                        \* INSUFFICIENT_FUNDS
       ELSE /\ bal' = SwapBal(bal, u, fromAsset, fromAmount)
            /\ ledger' = SwapLedger(ledger, u, fromAsset, fromAmount)
    /\ UNCHANGED <<deposits, createReq, swapReq, rewardVars, referralVars, stakingVars, scan, sweeper, sweepReq>>

\* router.post('/v1/wallet/swap') of the wallet router: the balance is read
\* with a plain SELECT SUM(balance) inside the transaction
RouterSwapRead(r, u, fromAsset, fromAmount) ==
    /\ swapReq[r] = Idle
    /\ fromAmount > 0
    /\ swapReq' = [swapReq EXCEPT ![r] =
           [pc |-> "write", user |-> u, asset |-> fromAsset, amount |-> fromAmount,
            currentBal |-> bal[<<u, fromAsset>>]]]
    /\ UNCHANGED <<bal, ledger, deposits, createReq, rewardVars, referralVars, stakingVars, scan, sweeper, sweepReq>>

RouterSwapWrite(r) ==
    /\ swapReq[r].pc = "write"
    /\ LET q == swapReq[r]
       IN  IF q.currentBal < q.amount
           THEN UNCHANGED walletVars                    \* INSUFFICIENT_FUNDS
           ELSE /\ LedgerSize + 2 <= MaxLedger
                /\ bal' = SwapBal(bal, q.user, q.asset, q.amount)
                /\ ledger' = SwapLedger(ledger, q.user, q.asset, q.amount)
    /\ swapReq' = [swapReq EXCEPT ![r] = Idle]
    /\ UNCHANGED <<deposits, createReq, rewardVars, referralVars, stakingVars, scan, sweeper, sweepReq>>

\* quoteCryptoTransfer / quoteBankTransfer: total_debit_usdt
TotalDebit(kind, amount, networkFee) ==
    IF kind = "crypto" THEN amount + networkFee
    ELSE amount + (amount * 5) \div 1000 + BANK_SEND_FEE_USDT

\* amount column of the row written by the transfer
TransferLedgerAmount(totalDebit) == 0 - totalDebit

\* app.post('/v1/wallet/transfer'): the balance row is read FOR UPDATE
Transfer(u, kind, amount, networkFee) ==
    /\ amount > 0
    /\ LedgerSize < MaxLedger
    /\ LET totalDebit == TotalDebit(kind, amount, networkFee)
           ledgerType == IF kind = "crypto" THEN "transfer_out" ELSE "withdraw"
       IN  IF bal[<<u, "USDT">>] < totalDebit
           THEN UNCHANGED <<bal, ledger, credits>>      \* INSUFFICIENT_FUNDS
           ELSE /\ bal' = Upsert(bal, u, "USDT", 0 - totalDebit)
                /\ ledger' = Append1(ledger,
                       Row(u, "USDT", ledgerType, TransferLedgerAmount(totalDebit), NullRef))
                /\ credits' = evaluateRewardCreditsForUser(credits, credits, ledger', referrer, u)
    /\ UNCHANGED <<deposits, createReq, swapReq, claimReq, referralVars, stakingVars, scan, sweeper, evalReq, notifyVars, sweepReq>>

(***************************************************************************)
(* Initial state: an empty database                                        *)
(***************************************************************************)
Init ==
    /\ bal = [k \in Users \X Assets |-> 0]
    /\ ledger = EmptyBag
    /\ deposits = <<>>
    /\ createReq = [r \in {1, 2} |-> Idle]
    /\ swapReq = [r \in SwapReqs |-> Idle]
    /\ credits = <<>>
    /\ referrer = [u \in Users |-> 0]
    /\ scan = Idle
    /\ sweeper = Idle
    /\ sweepReq = [c \in SweepCallers |-> Idle]
    /\ notified = [i \in 1..MaxCredits |-> {}]
    /\ emails = [i \in 1..MaxCredits |-> [st \in Stages |-> 0]]
    /\ notifyReq = [r \in NotifyReqs |-> Idle]
    /\ claimReq = [r \in ClaimReqs |-> Idle]
    /\ evalReq = Idle
    /\ useReq = [r \in UseReqs |-> Idle]
    /\ refEvents = <<>>
    /\ refClaims = <<>>
    /\ refReq = [r \in RefReqs |-> Idle]
    /\ awardReq = [r \in AwardReqs |-> Idle]
    /\ positions = <<>>
    /\ airdrops = <<>>
    /\ recipients = <<>>
    /\ splits = {}
    /\ chainTx = [p \in 1..MaxPositions |-> 0]
    /\ stakeReq = [r \in StakeReqs |-> Idle]

(***************************************************************************)
(* Wallet specification: funding by manual deposit credit, swaps on both   *)
(* swap routes, transfers                                                  *)
(***************************************************************************)
NextWallet ==
    \/ \E u \in {1} : CreateDepositRead(1, u)
    \/ CreateDepositInsert(1)
    \/ \E d \in 1..MaxDeposits : ServerCredit(d, 300)
    \/ \E u \in {1}, a \in Assets : ServerSwap(u, a, 100)
    \/ \E r \in SwapReqs, u \in {1}, amt \in {100, 300} : RouterSwapRead(r, u, "USDT", amt)
    \/ \E r \in SwapReqs : RouterSwapWrite(r)
    \/ \E u \in {1}, kind \in {"crypto", "bank"}, amt \in {50, 200} :
          Transfer(u, kind, amt, MAX_NETWORK_FEE_USDT)

SpecWallet == Init /\ [][NextWallet]_vars


(***************************************************************************)
(* Chain watcher (bsc_watcher.js)                                          *)
(***************************************************************************)
\* a transfer log as scanBatch decodes it: the intent of the receiving
\* address, confirmations = currentBlock - blockNumber + 1, humanAmount
Log(d, c, a) == [dep |-> d, conf |-> c, amount |-> a]

\* logs.sort: oldest block first, i.e. confirmations never increase
SortedLogs(logs) ==
    \A i \in 1..(Len(logs) - 1) : logs[i].conf >= logs[i + 1].conf

\* scanOnce: the batch is the intents with status pending, seen or
\* confirming; getLogs returns transfer logs to their addresses
ScanOnce(logs) ==
    /\ scan = Idle
    /\ Len(logs) > 0
    /\ SortedLogs(logs)
    /\ \A i \in 1..Len(logs) :
          /\ logs[i].dep \in DOMAIN deposits
          /\ deposits[logs[i].dep].status \in {"pending", "seen", "confirming"}
    /\ scan' = [pc |-> "update", logs |-> logs, i |-> 1]
    /\ UNCHANGED <<bal, ledger, deposits, createReq, swapReq, rewardVars, referralVars, stakingVars, sweeper, sweepReq>>

ScanAdvance(sc) ==
    IF sc.i >= Len(sc.logs) THEN Idle
    ELSE [pc |-> "update", logs |-> sc.logs, i |-> sc.i + 1]

Confirmed_strict(confirmations, requiredConfs) == confirmations > requiredConfs

\* the credit threshold of scanBatch
Confirmed(confirmations, requiredConfs) == confirmations >= requiredConfs

\* scanBatch, loop body up to the UPDATE of the deposit progress
ScanApplyLog ==
    /\ scan.pc = "update"
    /\ LET log == scan.logs[scan.i]
           d == log.dep
       IN  IF log.amount <= 0
           THEN /\ scan' = ScanAdvance(scan)           \* invalid amount, skip
                /\ UNCHANGED deposits
           ELSE /\ deposits' = [deposits EXCEPT ![d] =
                       [@ EXCEPT !.conf = log.conf,
                                 !.amt = Coalesce(@, log.amount),
                                 !.status = "confirming"]]
                /\ scan' = IF Confirmed(log.conf, deposits[d].req)
                           THEN [scan EXCEPT !.pc = "credit"]
                           ELSE ScanAdvance(scan)
    /\ UNCHANGED <<bal, ledger, createReq, swapReq, rewardVars, referralVars, stakingVars, sweeper, sweepReq>>

\* scanBatch, the call of the watcher's creditDepositAndWebhook, which
\* evaluates the user's reward credits before it commits
ScanCredit ==
    /\ scan.pc = "credit"
    /\ LedgerSize < MaxLedger
    /\ LET log == scan.logs[scan.i]
           out == creditDepositAndWebhook(bal, ledger, deposits, log.dep, log.amount)
       IN  /\ bal' = out.bal
           /\ ledger' = out.ledger
           /\ deposits' = out.deposits
           /\ credits' = IF out.ledger = ledger THEN credits
                         ELSE evaluateRewardCreditsForUser(credits, credits, out.ledger,
                                                           referrer, deposits[log.dep].user)
    /\ scan' = ScanAdvance(scan)
    /\ UNCHANGED <<createReq, swapReq, claimReq, referralVars, stakingVars, sweeper, evalReq, notifyVars, sweepReq>>

(***************************************************************************)
(* Standalone sweeper script (sweeper.js): every statement runs on the     *)
(* pool outside any transaction                                            *)
(***************************************************************************)
SweeperSelected(d) ==
    /\ (d.status \in {"confirming", "confirmed", "credited"} \/ d.conf >= d.req)
    /\ d.swept = 0

RECURSIVE SelectRows(_, _)
SelectRows(ds, i) ==
    IF i > Len(ds) THEN <<>>
    ELSE IF SweeperSelected(ds[i])
         THEN <<[id |-> i, d |-> ds[i]]>> \o SelectRows(ds, i + 1)
         ELSE SelectRows(ds, i + 1)

\* step 1: SELECT the rows to credit or sweep
SweeperStart ==
    /\ sweeper = Idle
    /\ sweepReq = [c \in SweepCallers |-> Idle]
    /\ notified = [i \in 1..MaxCredits |-> {}]
    /\ emails = [i \in 1..MaxCredits |-> [st \in Stages |-> 0]]
    /\ notifyReq = [r \in NotifyReqs |-> Idle]
    /\ SelectRows(deposits, 1) # <<>>
    /\ sweeper' = [pc |-> "credit", rows |-> SelectRows(deposits, 1)]
    /\ UNCHANGED <<bal, ledger, deposits, createReq, swapReq, rewardVars, referralVars, stakingVars, scan, sweepReq>>

SweeperNext(sw) ==
    IF Len(sw.rows) <= 1 THEN Idle
    ELSE [pc |-> "credit", rows |-> Tail(sw.rows)]

\* the guard of the credit block, on the row as selected
SweeperWantsCredit(d) == d.conf >= d.req /\ d.status # "credited"

\* step 2: UPDATE crypto_deposits SET status='credited' WHERE id=? AND status<>'credited'
SweeperMark ==
    /\ sweeper.pc = "credit"
    /\ LET row == Head(sweeper.rows)
       IN  IF SweeperWantsCredit(row.d)
           THEN /\ deposits' = [deposits EXCEPT ![row.id].status = "credited"]
                /\ sweeper' = IF deposits[row.id].status # "credited"
                              THEN [sweeper EXCEPT !.pc = "balance"]
                              ELSE [sweeper EXCEPT !.pc = "sweep"]
           ELSE /\ UNCHANGED deposits
                /\ sweeper' = IF row.d.conf < row.d.req
                              THEN SweeperNext(sweeper)     \* not enough confirmations
                              ELSE [sweeper EXCEPT !.pc = "sweep"]
    /\ UNCHANGED <<bal, ledger, createReq, swapReq, rewardVars, referralVars, stakingVars, scan, sweepReq>>

\* step 2, changed: balance upsert
SweeperBalance ==
    /\ sweeper.pc = "balance"
    /\ LET row == Head(sweeper.rows)
       IN  bal' = Upsert(bal, row.d.user, "USDT", row.d.amt)
    /\ sweeper' = [sweeper EXCEPT !.pc = "ledger"]
    /\ UNCHANGED <<ledger, deposits, createReq, swapReq, rewardVars, referralVars, stakingVars, scan, sweepReq>>

\* step 2, changed: ledger row
SweeperLedger ==
    /\ sweeper.pc = "ledger"
    /\ LedgerSize < MaxLedger
    /\ RowCount(ledger, "deposit", NumRef(Head(sweeper.rows).id)) < MaxDepositRows
    /\ LET row == Head(sweeper.rows)
       IN  ledger' = Append1(ledger,
               Row(row.d.user, "USDT", "deposit", row.d.amt, NumRef(row.id)))
    /\ sweeper' = [sweeper EXCEPT !.pc = "sweep"]
    /\ UNCHANGED <<bal, deposits, createReq, swapReq, rewardVars, referralVars, stakingVars, scan, sweepReq>>

\* step 3: the address holds no USDT: mark swept
SweeperEmpty ==
    /\ sweeper.pc = "sweep"
    /\ deposits' = [deposits EXCEPT ![Head(sweeper.rows).id] =
           [@ EXCEPT !.swept = 1, !.status = "swept"]]
    /\ sweeper' = SweeperNext(sweeper)
    /\ UNCHANGED <<bal, ledger, createReq, swapReq, rewardVars, referralVars, stakingVars, scan, sweepReq>>

\* step 3: address mismatch, gas not ready, or the transfer throws
SweeperSkip ==
    /\ sweeper.pc = "sweep"
    /\ sweeper' = SweeperNext(sweeper)
    /\ UNCHANGED <<bal, ledger, deposits, createReq, swapReq, rewardVars, referralVars, stakingVars, scan, sweepReq>>

\* step 3: the transfer to the treasury is broadcast
SweeperSend ==
    /\ sweeper.pc = "sweep"
    /\ deposits' = [deposits EXCEPT ![Head(sweeper.rows).id].status = "sweeping"]
    /\ sweeper' = [sweeper EXCEPT !.pc = "wait"]
    /\ UNCHANGED <<bal, ledger, createReq, swapReq, rewardVars, referralVars, stakingVars, scan, sweepReq>>

\* step 3: tx.wait() returns a successful receipt
SweeperSwept ==
    /\ sweeper.pc = "wait"
    /\ deposits' = [deposits EXCEPT ![Head(sweeper.rows).id] =
           [@ EXCEPT !.status = "swept", !.swept = 1]]
    /\ sweeper' = SweeperNext(sweeper)
    /\ UNCHANGED <<bal, ledger, createReq, swapReq, rewardVars, referralVars, stakingVars, scan, sweepReq>>

\* step 3: tx.wait() throws or the transfer reverted
SweeperWaitFailed ==
    /\ sweeper.pc = "wait"
    /\ sweeper' = SweeperNext(sweeper)
    /\ UNCHANGED <<bal, ledger, deposits, createReq, swapReq, rewardVars, referralVars, stakingVars, scan, sweepReq>>

(***************************************************************************)
(* Deposit specification: intents, the chain watcher, manual credits and   *)
(* the sweeper script                                                      *)
(***************************************************************************)
LogConfs == {11, 12}
LogAmounts == {30}
LogSet == {Log(d, c, a) : d \in 1..MaxDeposits, c \in LogConfs, a \in LogAmounts}
LogSeqs == UNION {[1..n -> LogSet] : n \in 1..MaxLogs}

NextDeposit ==
    \/ \E u \in {1} : CreateDepositRead(1, u)
    \/ CreateDepositInsert(1)
    \/ \E d \in 1..MaxDeposits, amount \in {NULL, 30} : ServerCredit(d, amount)
    \/ \E d \in 1..MaxDeposits, amount \in LogAmounts : MockDevCredit(d, amount)
    \/ \E logs \in LogSeqs : ScanOnce(logs)
    \/ ScanApplyLog
    \/ ScanCredit
    \/ SweeperStart
    \/ SweeperMark
    \/ SweeperBalance
    \/ SweeperLedger
    \/ SweeperEmpty
    \/ SweeperSkip
    \/ SweeperSend
    \/ SweeperSwept
    \/ SweeperWaitFailed

SpecDeposit == Init /\ [][NextDeposit]_vars

(***************************************************************************)
(* Watcher specification: facts with differing observed amounts            *)
(***************************************************************************)
FactAmounts == {20, 30}
FactSet == {Log(d, c, a) : d \in 1..MaxDeposits, c \in LogConfs, a \in FactAmounts}
FactSeqs == UNION {[1..n -> FactSet] : n \in 1..MaxLogs}

NextWatcher ==
    \/ \E u \in {1} : CreateDepositRead(1, u)
    \/ CreateDepositInsert(1)
    \/ \E logs \in FactSeqs : ScanOnce(logs)
    \/ ScanApplyLog
    \/ ScanCredit

SpecWatcher == Init /\ [][NextWatcher]_vars

(***************************************************************************)
(* Reward credits: admin grant, list, claim (routes/admin_reward_credits,  *)
(* routes/reward_credits)                                                  *)
(***************************************************************************)
creditRefId(creditId) == [tag |-> "reward_credit", id |-> creditId]

\* POST /admin/reward-credits: INSERT as locked, then evaluate, one transaction
AdminCreateCredit(u, amountUsdt, depositUsdtMin, referralsMin, hasExpiry) ==
    /\ Len(credits) < MaxCredits
    /\ LET row == [user |-> u, amount |-> amountUsdt, status |-> "locked",
                   depMin |-> depositUsdtMin, refMin |-> referralsMin,
                   expires |-> hasExpiry, expired |-> FALSE]
           ins == Append(credits, row)
       IN  credits' = evaluateRewardCreditsForUser(ins, ins, ledger, referrer, u)
    /\ UNCHANGED <<bal, ledger, deposits, createReq, swapReq, scan, sweeper,
                   claimReq, referralVars, stakingVars, evalReq, notifyVars, sweepReq>>

\* the clock passes expires_at of a credit
ExpireCredit(id) ==
    /\ id \in DOMAIN credits
    /\ credits[id].expires
    /\ ~credits[id].expired
    /\ credits' = [credits EXCEPT ![id].expired = TRUE]
    /\ UNCHANGED <<bal, ledger, deposits, createReq, swapReq, scan, sweeper,
                   claimReq, referralVars, stakingVars, evalReq, notifyVars, sweepReq>>

\* GET /v1/reward-credits: evaluate, then list
ListCredits(u) ==
    /\ credits' = evaluateRewardCreditsForUser(credits, credits, ledger, referrer, u)
    /\ credits' # credits
    /\ UNCHANGED <<bal, ledger, deposits, createReq, swapReq, scan, sweeper,
                   claimReq, referralVars, stakingVars, evalReq, notifyVars, sweepReq>>

\* claimCredit up to the first SELECT of evaluateRewardCreditsForUser: a
\* plain read, which fixes the snapshot every later plain read of the
\* transaction sees
ClaimBegin(r, u, creditId) ==
    /\ claimReq[r] = Idle
    /\ creditId > 0
    /\ claimReq' = [claimReq EXCEPT ![r] =
           [pc |-> "run", user |-> u, id |-> creditId,
            snapCr |-> credits, snapL |-> ledger, snapRef |-> referrer]]
    /\ UNCHANGED <<bal, ledger, deposits, createReq, swapReq, scan, sweeper,
                   credits, referralVars, stakingVars, evalReq, notifyVars, sweepReq>>

ClaimReadCredit_plain(cur, snap, creditId) ==
    IF creditId \in DOMAIN snap THEN snap[creditId] ELSE cur[creditId]

\* SELECT * FROM reward_credits WHERE id=? FOR UPDATE: a locking read
\* returns the current row, not the snapshot's
ClaimReadCredit(cur, snap, creditId) == cur[creditId]

IsClaimable_unlocked(c) == c.status \in {"locked", "claimable"}

\* the status test on the locked row: c.status !== 'claimable' is NOT_CLAIMABLE
IsClaimable(c) == c.status = "claimable"

\* the idempotency lookup in wallet_ledger, a plain read
ClaimAlready(l, u, creditId) ==
    \E row \in DOMAIN l :
        /\ row.user = u
        /\ row.type = "reward_credit"
        /\ row.ref \in {creditRefId(creditId), NumRef(creditId)}

\* claimCredit from the UPDATEs of the evaluation to the commit or rollback:
\* the row locks it takes are held to the end, so it is one step
ClaimFinish(r) ==
    /\ claimReq[r].pc = "run"
    /\ LedgerSize < MaxLedger
    /\ LET q == claimReq[r]
           u == q.user
           id == q.id
           cr1 == evaluateRewardCreditsForUser(q.snapCr, credits, q.snapL, q.snapRef, u)
       IN  IF ~(id \in DOMAIN credits /\ credits[id].user = u)
           THEN UNCHANGED <<bal, ledger, credits>>                  \* NOT_FOUND
           ELSE LET c == ClaimReadCredit(cr1, q.snapCr, id)
                IN  IF c.expired
                    THEN /\ credits' = [cr1 EXCEPT ![id].status = "expired"]
                         /\ UNCHANGED <<bal, ledger>>               \* EXPIRED
                    ELSE IF c.status = "claimed"
                    THEN UNCHANGED <<bal, ledger, credits>>         \* already
                    ELSE IF ~IsClaimable(c)
                    THEN UNCHANGED <<bal, ledger, credits>>         \* NOT_CLAIMABLE
                    ELSE IF c.amount <= 0
                    THEN UNCHANGED <<bal, ledger, credits>>         \* BAD_AMOUNT
                    ELSE IF ClaimAlready(q.snapL, u, id)
                    THEN /\ credits' = [cr1 EXCEPT ![id].status = "claimed"]
                         /\ UNCHANGED <<bal, ledger>>
                    ELSE /\ bal' = Upsert(bal, u, "USDT", c.amount)
                         /\ ledger' = Append1(ledger,
                               Row(u, "USDT", "reward_credit", c.amount, creditRefId(id)))
                         /\ credits' = [cr1 EXCEPT ![id].status =
                               IF @ = "claimable" THEN "claimed" ELSE @]
    /\ claimReq' = [claimReq EXCEPT ![r] = Idle]
    /\ UNCHANGED <<deposits, createReq, swapReq, scan, sweeper, referralVars, stakingVars, evalReq, notifyVars, sweepReq>>

CreditAmounts == {5}
CreditDepositMins == {0, 30}

NextReward ==
    \/ \E u \in {1} : CreateDepositRead(1, u)
    \/ CreateDepositInsert(1)
    \/ \E d \in 1..MaxDeposits : ServerCredit(d, 30)
    \/ \E u \in {1}, a \in CreditAmounts, m \in CreditDepositMins, e \in BOOLEAN :
          AdminCreateCredit(u, a, m, 0, e)
    \/ \E id \in 1..MaxCredits : ExpireCredit(id)
    \/ \E u \in {1} : ListCredits(u)
    \/ \E r \in ClaimReqs, u \in Actors, id \in 1..MaxCredits : ClaimBegin(r, u, id)
    \/ \E r \in ClaimReqs : ClaimFinish(r)

SpecReward == Init /\ [][NextReward]_vars

(***************************************************************************)
(* Reward-credit emails (lib/notify_reward_credits): the routes call the   *)
(* notifier after their commit without awaiting it, so calls overlap       *)
(***************************************************************************)
\* the stage a status is mailed as: locked -> assigned, claimable ->
\* eligible, claimed -> credited; no mail for any other status
StageOf(status) ==
    CASE status = "locked" -> "assigned"
      [] status = "claimable" -> "eligible"
      [] status = "claimed" -> "credited"
      [] OTHER -> "none"

\* the SELECT: the user's credits whose current stage has a NULL
\* *_notified_at, ORDER BY id
NotifyRows(cr, nt, u) ==
    SelectSeq([i \in 1..Len(cr) |-> [id |-> i, status |-> cr[i].status]],
              LAMBDA x : /\ cr[x.id].user = u
                         /\ StageOf(x.status) \in Stages
                         /\ StageOf(x.status) \notin nt[x.id])

\* the UPDATE after the mail: the stage sent is marked, and the earlier
\* stages with it (IFNULL keeps a mark already there)
MarkNotified(have, status) ==
    have \cup (CASE status = "claimed" -> {"credited", "eligible", "assigned"}
                 [] status = "claimable" -> {"eligible", "assigned"}
                 [] OTHER -> {"assigned"})

\* notifyRewardCreditEmailsForUser up to the end of its SELECT
NotifyBegin(r, u) ==
    /\ notifyReq[r] = Idle
    /\ NotifyRows(credits, notified, u) # <<>>
    /\ notifyReq' = [notifyReq EXCEPT ![r] =
                        [pc |-> "send", rows |-> NotifyRows(credits, notified, u)]]
    /\ UNCHANGED <<notified, emails>>
    /\ UNCHANGED <<bal, ledger, deposits, createReq, swapReq, scan, sweeper, sweepReq,
                   credits, claimReq, evalReq, referralVars, stakingVars>>

\* sendMail for the next row of the loop, with the template of the status
\* the SELECT read; a throw leaves the function, nothing is marked
NotifySend(r, outcome) ==
    /\ notifyReq[r].pc = "send"
    /\ LET row == Head(notifyReq[r].rows)
           st == StageOf(row.status)
       IN  IF outcome = "sent"
           THEN /\ emails[row.id][st] < MaxEmails
                /\ emails' = [emails EXCEPT ![row.id][st] = @ + 1]
                /\ notifyReq' = [notifyReq EXCEPT ![r].pc = "mark"]
           ELSE /\ UNCHANGED emails
                /\ notifyReq' = [notifyReq EXCEPT ![r] = Idle]
    /\ UNCHANGED notified
    /\ UNCHANGED <<bal, ledger, deposits, createReq, swapReq, scan, sweeper, sweepReq,
                   credits, claimReq, evalReq, referralVars, stakingVars>>

\* the UPDATE of the *_notified_at columns WHERE id = ?, then the next row
NotifyMark(r, outcome) ==
    /\ notifyReq[r].pc = "mark"
    /\ LET row == Head(notifyReq[r].rows)
           rest == Tail(notifyReq[r].rows)
       IN  IF outcome = "ok"
           THEN /\ notified' = [notified EXCEPT ![row.id] = MarkNotified(@, row.status)]
                /\ notifyReq' = [notifyReq EXCEPT ![r] =
                                    IF rest = <<>> THEN Idle
                                    ELSE [pc |-> "send", rows |-> rest]]
           ELSE /\ UNCHANGED notified                   \* db.query threw
                /\ notifyReq' = [notifyReq EXCEPT ![r] = Idle]
    /\ UNCHANGED emails
    /\ UNCHANGED <<bal, ledger, deposits, createReq, swapReq, scan, sweeper, sweepReq,
                   credits, claimReq, evalReq, referralVars, stakingVars>>

NextNotify ==
    \/ \E m \in {0, 30} : AdminCreateCredit(1, 5, m, 0, FALSE)
    \/ \E id \in 1..MaxCredits : ClaimBegin(1, 1, id)
    \/ ClaimFinish(1)
    \/ \E r \in NotifyReqs : NotifyBegin(r, 1)
    \/ \E r \in NotifyReqs, outcome \in {"sent", "failed"} : NotifySend(r, outcome)
    \/ \E r \in NotifyReqs, outcome \in {"ok", "throw"} : NotifyMark(r, outcome)

SpecNotify == Init /\ [][NextNotify]_vars

(***************************************************************************)
(* The evaluation pass outside a transaction (GET /v1/reward-credits):     *)
(* its reads and its UPDATEs are separate statements, so a claim or a      *)
(* deposit credit can commit between them                                  *)
(***************************************************************************)
\* evaluateRewardCreditsForUser, the reads: the credits to evaluate, the
\* deposit totals and the referral progress
EvalBegin(u) ==
    /\ evalReq = Idle
    /\ \E i \in DOMAIN credits :
          /\ credits[i].user = u
          /\ credits[i].status \in {"locked", "claimable"}
          /\ ~credits[i].expired                  \* else return { updated: 0 }
    /\ evalReq' = [pc |-> "run", user |-> u, snapCr |-> credits, snapL |-> ledger,
                   snapRef |-> referrer]
    /\ UNCHANGED <<bal, ledger, deposits, createReq, swapReq, scan, sweeper,
                   credits, claimReq, notifyVars, referralVars, stakingVars, sweepReq>>

\* evaluateRewardCreditsForUser, the UPDATE of every credit it read
EvalUpdate ==
    /\ evalReq.pc = "run"
    /\ credits' = evaluateRewardCreditsForUser(evalReq.snapCr, credits, evalReq.snapL,
                                               evalReq.snapRef, evalReq.user)
    /\ evalReq' = [evalReq EXCEPT !.pc = "done"]
    /\ UNCHANGED <<bal, ledger, deposits, createReq, swapReq, scan, sweeper,
                   claimReq, notifyVars, referralVars, stakingVars, sweepReq>>

\* the pass returns { updated, demoted } and the route lists the credits
EvalReturn ==
    /\ evalReq.pc = "done"
    /\ evalReq' = Idle
    /\ UNCHANGED <<bal, ledger, deposits, createReq, swapReq, scan, sweeper,
                   credits, claimReq, notifyVars, referralVars, stakingVars, sweepReq>>

\* a pending intent as POST /v1/deposits/crypto inserts it
PendingIntent(u, idx) ==
    [user |-> u, status |-> "pending", conf |-> 0, req |-> BSC_REQUIRED_CONFS,
     amt |-> NULL, idx |-> idx, swept |-> 0, sweep_status |-> "null"]

\* the owner of the credits and two users who can attach to the owner's
\* code each hold one pending deposit intent
EvalIntents == <<PendingIntent(1, 0), PendingIntent(2, 1), PendingIntent(3, 2)>>

InitEval ==
    /\ bal = [k \in Users \X Assets |-> 0]
    /\ ledger = EmptyBag
    /\ deposits = EvalIntents
    /\ createReq = [r \in {1, 2} |-> Idle]
    /\ swapReq = [r \in SwapReqs |-> Idle]
    /\ credits = <<>>
    /\ referrer = [u \in Users |-> 0]
    /\ scan = Idle
    /\ sweeper = Idle
    /\ sweepReq = [c \in SweepCallers |-> Idle]
    /\ notified = [i \in 1..MaxCredits |-> {}]
    /\ emails = [i \in 1..MaxCredits |-> [st \in Stages |-> 0]]
    /\ notifyReq = [r \in NotifyReqs |-> Idle]
    /\ claimReq = [r \in ClaimReqs |-> Idle]
    /\ evalReq = Idle
    /\ useReq = [r \in UseReqs |-> Idle]
    /\ refEvents = <<>>
    /\ refClaims = <<>>
    /\ refReq = [r \in RefReqs |-> Idle]
    /\ awardReq = [r \in AwardReqs |-> Idle]
    /\ positions = <<>>
    /\ airdrops = <<>>
    /\ recipients = <<>>
    /\ splits = {}
    /\ chainTx = [p \in 1..MaxPositions |-> 0]
    /\ stakeReq = [r \in StakeReqs |-> Idle]

(***************************************************************************)
(* Referrals (routes/referrals.js): use-code, the award helper, claim.     *)
(* REF_COMPANY_USER_ID is 0 (no company beneficiary) unless the            *)
(* environment sets it; both deployments are modelled.                     *)
(***************************************************************************)
\* POST /use-code, the two SELECTs
UseCodeRead(r, u, owner) ==
    /\ useReq[r] = Idle
    /\ referrer[u] = 0                       \* else ALREADY_ATTACHED
    /\ owner # u                             \* else SELF_REFERRAL
    /\ useReq' = [useReq EXCEPT ![r] = [pc |-> "write", user |-> u, ref |-> owner]]
    /\ UNCHANGED <<bal, ledger, deposits, createReq, swapReq, scan, sweeper,
                   rewardVars, referrer, refEvents, refClaims, refReq, awardReq, stakingVars, sweepReq>>

\* POST /use-code, the UPDATE
UseCodeWrite(r) ==
    /\ useReq[r].pc = "write"
    /\ referrer' = [referrer EXCEPT ![useReq[r].user] = useReq[r].ref]
    /\ useReq' = [useReq EXCEPT ![r] = Idle]
    /\ UNCHANGED <<bal, ledger, deposits, createReq, swapReq, scan, sweeper,
                   rewardVars, refEvents, refClaims, refReq, awardReq, stakingVars, sweepReq>>

\* Math.round at the model's unit
RoundDiv(a, b) == (2 * a + b) \div (2 * b)

\* the upline chain lvl1, lvl2, lvl3 of a referee (0 = none)
UplineChain(ref, refereeId) ==
    LET l1 == ref[refereeId]
        l2 == IF l1 = 0 THEN 0 ELSE ref[l1]
        l3 == IF l2 = 0 THEN 0 ELSE ref[l2]
    IN  <<l1, l2, l3>>

Weights_noRollUp(chain, companyId) ==
    <<IF chain[1] # 0 THEN LVL_SHARE[1] ELSE 0,
      IF chain[2] # 0 THEN LVL_SHARE[2] ELSE 0,
      IF chain[3] # 0 THEN LVL_SHARE[3] ELSE 0,
      IF companyId > 0 THEN COMPANY_SHARE ELSE 0>>

\* the effective weights of lvl1, lvl2, lvl3 and the company: a present level
\* has its share, and a configured company has its own share plus the shares
\* of the absent levels
Weights(chain, companyId) ==
    <<IF chain[1] # 0 THEN LVL_SHARE[1] ELSE 0,
      IF chain[2] # 0 THEN LVL_SHARE[2] ELSE 0,
      IF chain[3] # 0 THEN LVL_SHARE[3] ELSE 0,
      IF companyId > 0
      THEN COMPANY_SHARE + (IF chain[1] = 0 THEN LVL_SHARE[1] ELSE 0)
                         + (IF chain[2] = 0 THEN LVL_SHARE[2] ELSE 0)
                         + (IF chain[3] = 0 THEN LVL_SHARE[3] ELSE 0)
      ELSE 0>>

TotalEffectiveWeight(w) == w[1] + w[2] + w[3] + w[4]

\* calcShare: pool * (weight / totalEffectiveWeight), rounded; pool = amt * rate
calcShare(amt, rate, weight, totalEffectiveWeight) ==
    RoundDiv(amt * rate[1] * weight, rate[2] * totalEffectiveWeight)

TotalRate(type) == IF type = "conversion" THEN REF_CONVERSION_RATE ELSE REF_STAKING_RATE

\* the events array of awardReferral: one entry per beneficiary with a
\* positive share, in the order lvl1, lvl2, lvl3, company (level 4)
AwardEvents(ref, companyId, refereeId, type, asset, baseAmount, sourceRef) ==
    LET chain == UplineChain(ref, refereeId)
        w == Weights(chain, companyId)
        who == <<chain[1], chain[2], chain[3], IF companyId > 0 THEN companyId ELSE 0>>
        cand(k) == [referee |-> refereeId, referrer |-> who[k], type |-> type,
                    asset |-> asset, base |-> baseAmount,
                    amount |-> calcShare(baseAmount, TotalRate(type), w[k],
                                         TotalEffectiveWeight(w)),
                    status |-> "pending", claim |-> 0, src |-> sourceRef, level |-> k]
    IN  IF baseAmount <= 0 \/ who = <<0, 0, 0, 0>> THEN <<>>   \* BAD_INPUT, NO_RECIPIENTS
        ELSE SelectSeq(<<cand(1), cand(2), cand(3), cand(4)>>,
                       LAMBDA c : c.referrer # 0 /\ c.amount > 0)

\* the referrers of the rows that exist for (referee, type, source_ref)
ExistingSet(ev, refereeId, type, sourceRef) ==
    {ev[i].referrer : i \in {j \in DOMAIN ev :
        ev[j].referee = refereeId /\ ev[j].type = type /\ ev[j].src = sourceRef}}

InsertIgnore_plain(ev, c) == Append(ev, c)

\* INSERT IGNORE under the unique key (referee, referrer, type, source_ref)
InsertIgnore(ev, c) ==
    IF \E i \in DOMAIN ev :
          /\ ev[i].referee = c.referee /\ ev[i].type = c.type
          /\ ev[i].src = c.src /\ ev[i].referrer = c.referrer
    THEN ev
    ELSE Append(ev, c)

\* the insert loop: skip the beneficiaries of existingSet, INSERT IGNORE the others
RECURSIVE InsertEvents(_, _, _)
InsertEvents(ev, existingSet, cands) ==
    IF cands = <<>> THEN ev
    ELSE IF Head(cands).referrer \in existingSet
         THEN InsertEvents(ev, existingSet, Tail(cands))
         ELSE InsertEvents(InsertIgnore(ev, Head(cands)), existingSet, Tail(cands))

\* awardReferral: the events it leaves in referral_events
awardReferral(ev, ref, refereeId, type, asset, baseAmount, sourceRef) ==
    InsertEvents(ev, ExistingSet(ev, refereeId, type, sourceRef),
                 AwardEvents(ref, REF_COMPANY_USER_ID, refereeId, type, asset,
                             baseAmount, sourceRef))

\* no claim transaction holds the locks on the referral events of u: the
\* locking reads of a claim cover the rows and the gaps of referrer_id = u
RefLockFree_none(reqs, u) == TRUE

RefLockFree(reqs, u) ==
    \A r \in DOMAIN reqs : IF reqs[r] = Idle THEN TRUE ELSE reqs[r].user # u

\* the award helper, as called after an airdrop round or by another router
AwardReferral(refereeId, type, asset, baseAmount, sourceRef) ==
    /\ refEvents' = awardReferral(refEvents, referrer, refereeId, type, asset,
                                  baseAmount, sourceRef)
    /\ refEvents' # refEvents
    /\ Len(refEvents') <= MaxRefEvents
    /\ \A i \in DOMAIN refEvents' : i \in DOMAIN refEvents
                                    \/ RefLockFree(refReq, refEvents'[i].referrer)
    /\ UNCHANGED <<bal, ledger, deposits, createReq, swapReq, scan, sweeper,
                   rewardVars, referrer, useReq, refClaims, refReq, awardReq, stakingVars, sweepReq>>

RECURSIVE SumEvents(_, _)
SumEvents(ev, S) ==
    IF S = {} THEN 0
    ELSE LET i == CHOOSE x \in S : TRUE
         IN  ev[i].amount + SumEvents(ev, S \ {i})

PendingSum(ev, u, asset) ==
    SumEvents(ev, {i \in DOMAIN ev : ev[i].referrer = u /\ ev[i].status = "pending"
                                      /\ ev[i].asset = asset})

\* POST /claim, the two locking reads
RefClaimLock(r, u) ==
    /\ refReq[r] = Idle
    /\ RefLockFree(refReq, u)
    /\ refReq' = [refReq EXCEPT ![r] =
           [pc |-> "locked", user |-> u,
            pendingPHP |-> PendingSum(refEvents, u, "PHP"),
            pendingUSDT |-> PendingSum(refEvents, u, "USDT")]]
    /\ UNCHANGED <<bal, ledger, deposits, createReq, swapReq, scan, sweeper,
                   rewardVars, referrer, useReq, refEvents, refClaims, awardReq, stakingVars, sweepReq>>

\* POST /claim, from the threshold test to the commit
RefClaimCommit(r) ==
    /\ refReq[r].pc = "locked"
    /\ LedgerSize < MaxLedger
    /\ LET q == refReq[r]
           u == q.user
           addUsdt == q.pendingUSDT
                      + (IF q.pendingPHP > 0 THEN q.pendingPHP \div USDT_PHP_RATE ELSE 0)
           claimId == Len(refClaims) + 1
       IN  IF q.pendingPHP < REF_MIN_PHP /\ q.pendingUSDT < REF_MIN_USDT
           THEN UNCHANGED <<bal, ledger, refEvents, refClaims>>      \* MIN_NOT_MET
           ELSE /\ refClaims' = Append(refClaims, [user |-> u, amount |-> addUsdt])
                /\ refEvents' = [i \in DOMAIN refEvents |->
                       IF refEvents[i].referrer = u /\ refEvents[i].status = "pending"
                       THEN [refEvents[i] EXCEPT !.status = "credited", !.claim = claimId]
                       ELSE refEvents[i]]
                /\ bal' = Upsert(bal, u, "USDT", addUsdt)
                /\ ledger' = Append1(ledger,
                       Row(u, "USDT", "referral_bonus", addUsdt, NumRef(claimId)))
    /\ refReq' = [refReq EXCEPT ![r] = Idle]
    /\ UNCHANGED <<deposits, createReq, swapReq, scan, sweeper,
                   rewardVars, referrer, useReq, awardReq, stakingVars, sweepReq>>

\* award payloads: type, asset, base amount
AwardInputs == {<<"staking_reward", "USDT", 10>>, <<"conversion", "PHP", 11600>>}
SourceRefs == {<<1>>, <<2>>}

NextReferral ==
    \/ \E r \in UseReqs, u \in Actors, owner \in Actors : UseCodeRead(r, u, owner)
    \/ \E r \in UseReqs : UseCodeWrite(r)
    \/ \E u \in Actors, in \in AwardInputs, src \in SourceRefs :
          AwardReferral(u, in[1], in[2], in[3], src)
    \/ \E r \in RefReqs, u \in Actors : RefClaimLock(r, u)
    \/ \E r \in RefReqs : RefClaimCommit(r)

SpecReferral == Init /\ [][NextReferral]_vars

\* Use-code requests of three users with each other's codes, and awards
\* for them as referees
CodeUsers == {1, 2, 3}

NextUseCode ==
    \/ \E r \in UseReqs, u \in CodeUsers, owner \in CodeUsers : UseCodeRead(r, u, owner)
    \/ \E r \in UseReqs : UseCodeWrite(r)
    \/ \E u \in CodeUsers : AwardReferral(u, "staking_reward", "USDT", 10, <<1>>)

SpecUseCode == Init /\ [][NextUseCode]_vars

(***************************************************************************)
(* awardReferral statement by statement: it runs outside any transaction,  *)
(* so its reads and each of its INSERTs are separate steps, and calls for  *)
(* the same event can overlap or follow a call that failed part-way        *)
(***************************************************************************)
\* awardReferral from the input checks to the events array: the chain read,
\* the read of the existing rows, the weights and the shares
AwardBegin(r, companyId, refereeId, type, asset, baseAmount, sourceRef) ==
    /\ awardReq[r] = Idle
    /\ LET events == AwardEvents(referrer, companyId, refereeId, type, asset,
                                 baseAmount, sourceRef)
       IN  /\ events # <<>>                               \* else { ok: false }
           /\ awardReq' = [awardReq EXCEPT ![r] =
                  [pc |-> "insert", referee |-> refereeId, type |-> type,
                   src |-> sourceRef, base |-> baseAmount, company |-> companyId,
                   chain |-> UplineChain(referrer, refereeId),
                   existing |-> ExistingSet(refEvents, refereeId, type, sourceRef),
                   events |-> events, i |-> 1]]
    /\ UNCHANGED <<bal, ledger, deposits, createReq, swapReq, scan, sweeper,
                   rewardVars, referrer, useReq, refEvents, refClaims, refReq,
                   stakingVars, sweepReq>>

\* one iteration of the insert loop
AwardInsert(r) ==
    /\ awardReq[r].pc = "insert"
    /\ LET q == awardReq[r]
           c == q.events[q.i]
       IN  /\ IF c.referrer \in q.existing
              THEN UNCHANGED refEvents                              \* fast path
              ELSE /\ RefLockFree(refReq, c.referrer)
                   /\ refEvents' = InsertIgnore(refEvents, c)
                   /\ Len(refEvents') <= MaxAwardEvents
           /\ awardReq' = [awardReq EXCEPT ![r] =
                  IF q.i < Len(q.events) THEN [q EXCEPT !.i = @ + 1]
                  ELSE [q EXCEPT !.pc = "done"]]
    /\ UNCHANGED <<bal, ledger, deposits, createReq, swapReq, scan, sweeper,
                   rewardVars, referrer, useReq, refClaims, refReq, stakingVars, sweepReq>>

\* the call returns { ok: true, ... }
AwardReturn(r) ==
    /\ awardReq[r].pc = "done"
    /\ awardReq' = [awardReq EXCEPT ![r] = Idle]
    /\ UNCHANGED <<bal, ledger, deposits, createReq, swapReq, scan, sweeper,
                   rewardVars, referrer, useReq, refEvents, refClaims, refReq,
                   stakingVars, sweepReq>>

\* a query of the insert loop throws: the call ends with the rows inserted
\* so far
AwardFail(r) ==
    /\ awardReq[r].pc = "insert"
    /\ awardReq' = [awardReq EXCEPT ![r] = Idle]
    /\ UNCHANGED <<bal, ledger, deposits, createReq, swapReq, scan, sweeper,
                   rewardVars, referrer, useReq, refEvents, refClaims, refReq,
                   stakingVars, sweepReq>>

\* a deployment whose REF_COMPANY_USER_ID names the company wallet's user,
\* who takes no part in the referral tree
CompanyUser == 5

\* who attaches to whose code
UsePairs == {<<1, 2>>, <<2, 3>>, <<3, 4>>, <<2, 1>>}
AwardBases == {<<"staking_reward", "USDT", 1000>>, <<"conversion", "PHP", 11600>>}

NextAward ==
    \/ \E in \in UsePairs : UseCodeRead(1, in[1], in[2])
    \/ UseCodeWrite(1)
    \/ \E r \in AwardReqs, in \in AwardBases :
          AwardBegin(r, CompanyUser, 1, in[1], in[2], in[3], <<1>>)
    \/ \E r \in AwardReqs : AwardInsert(r)
    \/ \E r \in AwardReqs : AwardReturn(r)
    \/ \E r \in AwardReqs : AwardFail(r)

SpecAward == Init /\ [][NextAward]_vars

\* the default deployment: no company wallet
NextAwardNoCompany ==
    \/ \E in \in UsePairs : UseCodeRead(1, in[1], in[2])
    \/ UseCodeWrite(1)
    \/ \E r \in AwardReqs, in \in AwardBases :
          AwardBegin(r, REF_COMPANY_USER_ID, 1, in[1], in[2], in[3], <<1>>)
    \/ \E r \in AwardReqs : AwardInsert(r)
    \/ \E r \in AwardReqs : AwardReturn(r)
    \/ \E r \in AwardReqs : AwardFail(r)

SpecAwardNoCompany == Init /\ [][NextAwardNoCompany]_vars

\* the evaluation pass with deposits of the owner and of two referees, the
\* referees attaching to the owner, grants with deposit and referral
\* conditions, and expiry
\* the deposit credits: intent and amount (5 is below the referee minimum)
EvalCredits == {<<1, 30>>, <<2, 30>>, <<3, 5>>, <<3, 30>>}
\* the grants: deposit_usdt_min, referrals_min, with or without expires_at
EvalGrants == {<<0, 2, FALSE>>, <<30, 2, TRUE>>, <<30, 0, FALSE>>}

NextEval ==
    \/ \E u \in {2, 3} : UseCodeRead(1, u, 1)
    \/ UseCodeWrite(1)
    \/ \E in \in EvalCredits : ServerCredit(in[1], in[2])
    \/ \E g \in EvalGrants : AdminCreateCredit(1, 5, g[1], g[2], g[3])
    \/ \E id \in 1..MaxCredits : ExpireCredit(id)
    \/ EvalBegin(1)
    \/ EvalUpdate
    \/ EvalReturn

SpecEval == InitEval /\ [][NextEval]_vars

\* the evaluation pass next to a claim of the same credit: a grant that needs
\* a deposit of its owner, the deposit, the pass and the claim request
NextEvalClaim ==
    \/ (deposits = <<>> /\ CreateDepositRead(1, 1))
    \/ CreateDepositInsert(1)
    \/ \E d \in 1..MaxDeposits : ServerCredit(d, 30)
    \/ \E m \in CreditDepositMins : AdminCreateCredit(1, 5, m, 0, FALSE)
    \/ EvalBegin(1)
    \/ EvalUpdate
    \/ EvalReturn
    \/ \E id \in 1..MaxCredits : ClaimBegin(1, 1, id)
    \/ ClaimFinish(1)

SpecEvalClaim == Init /\ [][NextEvalClaim]_vars

(***************************************************************************)
(* Staking (routes/staking.js): stake-open, stake splits, airdrop rounds   *)
(***************************************************************************)
InsufficientFunds_never(currentVpk, stakeVpk) == FALSE

\* the balance test under the row lock: currentVpk < stakeVpk
InsufficientFunds(currentVpk, stakeVpk) == currentVpk < stakeVpk

\* POST /v1/staking/positions, the transaction
StakeOpen(r, u, units, mult) ==
    /\ stakeReq[r] = Idle
    /\ units >= 1                                     \* else MIN_900_VPK
    /\ Len(positions) < MaxPositions
    /\ LET stakeVpk == units * STAKE_UNIT_VPK
           posId == Len(positions) + 1
       IN  /\ ~InsufficientFunds(bal[<<u, "VPK">>], stakeVpk)   \* else rollback
           /\ bal' = Upsert(bal, u, "VPK", 0 - stakeVpk)
           /\ positions' = Append(positions,
                  [user |-> u, units |-> units, unit |-> STAKE_UNIT_USDT, mult |-> mult,
                   cap |-> units * STAKE_UNIT_USDT * mult, credited |-> 0,
                   status |-> "active"])
           /\ ledger' = Append1(ledger, Row(u, "VPK", "stake_lock", stakeVpk, NumRef(posId)))
           /\ stakeReq' = [stakeReq EXCEPT ![r] = [pc |-> "split", pos |-> posId]]
    /\ UNCHANGED <<deposits, createReq, swapReq, scan, sweeper, rewardVars, referralVars,
                   airdrops, recipients, splits, chainTx, sweepReq>>

\* the row status a transfer attempt leaves: 'sent' when the transfer was
\* broadcast and its wait returned, 'failed' when either threw
RowStatus(outcome) == IF outcome = "sent" THEN "sent" ELSE "failed"

\* the hot-wallet transfers broadcast for position p: usdt.transfer
\* returned a transaction unless the outcome is "failed"
Broadcast(tx, p, outcome) == IF outcome = "failed" THEN tx ELSE [tx EXCEPT ![p] = @ + 1]

\* distributeStakeSplits after the commit: the split rows of the position are
\* written and each transfer is sent or fails; an error is caught and logged
StakeSplit(r, outcome) ==
    /\ stakeReq[r].pc = "split"
    /\ splits' = splits \cup {[pos |-> stakeReq[r].pos, status |-> RowStatus(outcome)]}
    /\ chainTx' = Broadcast(chainTx, stakeReq[r].pos, outcome)
    /\ stakeReq' = [stakeReq EXCEPT ![r] = [pc |-> "airdrop"]]
    /\ UNCHANGED <<bal, ledger, deposits, createReq, swapReq, scan, sweeper,
                   rewardVars, referralVars, positions, airdrops, recipients, sweepReq>>

AirdropLockFree_always(reqs) == TRUE

\* GET_LOCK('staking_airdrop_lock'): free unless a trigger pass is in its rounds
AirdropLockFree(reqs) == \A r \in DOMAIN reqs : reqs[r].pc # "rounds"

RECURSIVE SumUnits(_, _)
SumUnits(ps, n) == IF n = 0 THEN 0 ELSE ps[n].units + SumUnits(ps, n - 1)

TargetRounds_ceil(totalUnitsEver) ==
    (totalUnitsEver + AIRDROP_TRIGGER_UNITS - 1) \div AIRDROP_TRIGGER_UNITS

\* targetRounds = Math.floor(totalUnitsEver / AIRDROP_TRIGGER_UNITS)
TargetRounds(totalUnitsEver) == totalUnitsEver \div AIRDROP_TRIGGER_UNITS

NoStats == [u \in Users |-> [units |-> 0, ids |-> <<>>]]

\* triggerAirdropsIfNeeded up to the loop: lock, snapshot, rounds pending;
\* entered after a stake-open or from POST /airdrop/run
TriggerBegin(r) ==
    /\ stakeReq[r].pc \in {"idle", "airdrop"}
    /\ AirdropLockFree(stakeReq)
    /\ LET totalUnitsEver == SumUnits(positions, Len(positions))
           roundsDone == Len(airdrops)
           targetRounds == TargetRounds(totalUnitsEver)
       IN  stakeReq' = [stakeReq EXCEPT ![r] =
               IF roundsDone >= targetRounds THEN Idle
               ELSE [pc |-> "rounds", total |-> totalUnitsEver, done |-> roundsDone,
                     pending |-> targetRounds - roundsDone, p |-> 1,
                     nPos |-> Len(positions), stats |-> NoStats]]
    /\ UNCHANGED <<bal, ledger, deposits, createReq, swapReq, scan, sweeper,
                   rewardVars, referralVars, positions, airdrops, recipients, splits, chainTx, sweepReq>>

\* GET_LOCK times out while another pass holds the lock
TriggerTimeout(r) ==
    /\ stakeReq[r].pc = "airdrop"
    /\ ~AirdropLockFree(stakeReq)
    /\ stakeReq' = [stakeReq EXCEPT ![r] = Idle]
    /\ UNCHANGED <<bal, ledger, deposits, createReq, swapReq, scan, sweeper,
                   rewardVars, referralVars, positions, airdrops, recipients, splits, chainTx, sweepReq>>

\* x || d of the source, for a numeric column
OrDefault(x, d) == IF x = 0 THEN d ELSE x

UnconsumedUnits_all(pos) == pos.units

\* unconsumedUnits = max(0, min(units, floor((cap - cred) / perUnitCap)))
UnconsumedUnits(pos) ==
    LET perUnitCap == OrDefault(pos.unit, STAKE_UNIT_USDT) * OrDefault(pos.mult, DEFAULT_MULT)
    IN  Max(0, Min(pos.units, (pos.cap - pos.credited) \div perUnitCap))

\* buildCohortsConsumed: per position the numbers of old and new tickets
Tickets(ps, n, prevUnits) ==
    [i \in 1..n |->
        LET start == SumUnits(ps, i - 1) + 1
            end == SumUnits(ps, i)
            unconsumedUnits == UnconsumedUnits(ps[i])
            oldOverlap == Max(0, Min(end, prevUnits) - start + 1)
            newOverlap == Max(0, Min(end, prevUnits + AIRDROP_TRIGGER_UNITS)
                                 - Max(start, prevUnits + 1) + 1)
            oldShare == Min(oldOverlap, unconsumedUnits)
            newShare == Min(newOverlap, unconsumedUnits - oldShare)
        IN  IF ps[i].status # "active" \/ unconsumedUnits <= 0
            THEN [old |-> 0, new |-> 0]
            ELSE [old |-> oldShare, new |-> newShare]]

RECURSIVE SumF(_, _)
SumF(f, n) == IF n = 0 THEN 0 ELSE f[n] + SumF(f, n - 1)

\* pickWithoutReplacement(tickets, k), as the number of picks per position
Picks(tickets, n, k) ==
    {f \in [1..n -> 0..k] : (\A i \in 1..n : f[i] <= tickets[i]) /\ SumF(f, n) = k}

WinAmount_cap(pos) == pos.cap

\* the amount one winning ticket credits: nothing unless the position is
\* active, else min(perWin, capLeft)
WinAmount(pos) ==
    LET capLeft == Max(0, pos.cap - pos.credited)
        perWin == OrDefault(pos.unit, STAKE_UNIT_USDT) * OrDefault(pos.mult, DEFAULT_MULT)
    IN  IF pos.status # "active" THEN 0 ELSE Min(perWin, capLeft)

CreditedAfter_minus(cap, credited, amt) == Min(cap, credited - amt)

\* credited_usdt = LEAST(cap_usdt, credited_usdt + ?)
CreditedAfter(cap, credited, amt) == Min(cap, credited + amt)

\* status = CASE WHEN credited_usdt + ? >= cap_usdt ..., where credited_usdt
\* is the column as the preceding assignment of the UPDATE left it
StatusAfter(cap, creditedNow, amt) ==
    IF creditedNow + amt >= cap THEN "completed" ELSE "active"

UpdatePosition(pos, amt) ==
    LET c == CreditedAfter(pos.cap, pos.credited, amt)
    IN  [pos EXCEPT !.credited = c, !.status = StatusAfter(pos.cap, c, amt)]

\* one winner of the for loop; st carries the rows written so far
Win(st, i, airdropId) ==
    LET pos == st.positions[i]
        creditAmt == WinAmount(pos)
        recipientId == Len(st.recipients) + 1
    IN  IF creditAmt <= 0 THEN st
        ELSE [bal |-> Upsert(st.bal, pos.user, "USDT", creditAmt),
              recipients |-> Append(st.recipients,
                  [airdrop |-> airdropId, user |-> pos.user, pos |-> i,
                   amount |-> creditAmt]),
              ledger |-> Append1(st.ledger,
                  Row(pos.user, "USDT", "transfer_in", creditAmt, NumRef(recipientId))),
              stats |-> [st.stats EXCEPT ![pos.user] =
                  [units |-> @.units + 1,
                   ids |-> IF \E j \in DOMAIN @.ids : @.ids[j] = airdropId
                           THEN @.ids ELSE Append(@.ids, airdropId)]],
              positions |-> [st.positions EXCEPT ![i] = UpdatePosition(pos, creditAmt)]]

RECURSIVE Wins(_, _, _, _)
Wins(st, wins, i, airdropId) ==
    IF i > Len(wins) THEN st
    ELSE IF wins[i] = 0 THEN Wins(st, wins, i + 1, airdropId)
    ELSE Wins(Win(st, i, airdropId), [wins EXCEPT ![i] = @ - 1], i, airdropId)

\* newEnd and prevUnits of round p of a pass
NewEnd(q) == q.total - (q.pending - q.p) * AIRDROP_TRIGGER_UNITS
PrevUnits(q) == Max(0, NewEnd(q) - AIRDROP_TRIGGER_UNITS)

NewTickets(t, n) == [i \in 1..n |-> t[i].new]

\* newPick = Math.min(NEW_PICK, maxWinners, newTickets.length)
NewPick(newT, n) == Min(NEW_PICK, Min(AIRDROP_REWARD_UNITS, SumF(newT, n)))

NewWinnerUserIds(ps, n, kn) == {ps[i].user : i \in {j \in 1..n : kn[j] > 0}}

OldFiltered_all(ps, n, t, kn) == [i \in 1..n |-> t[i].old]

\* oldTickets.filter(t => !newWinnerUserIds.has(t.user_id))
OldFiltered(ps, n, t, kn) ==
    [i \in 1..n |-> IF ps[i].user \in NewWinnerUserIds(ps, n, kn) THEN 0 ELSE t[i].old]

\* oldPick = Math.min(OLD_PICK, remaining, oldFiltered.length)
OldPick(oldF, n, newCount) ==
    Min(OLD_PICK, Min(Max(0, AIRDROP_REWARD_UNITS - newCount), SumF(oldF, n)))

\* the draws a round can make from the tickets t: winning tickets per
\* position, from the new pool and from the filtered old pool
RoundDraws(ps, n, t) ==
    UNION {{[new |-> kn, old |-> ko] :
               ko \in Picks(OldFiltered(ps, n, t, kn), n,
                            OldPick(OldFiltered(ps, n, t, kn), n, SumF(kn, n)))} :
           kn \in Picks(NewTickets(t, n), n, NewPick(NewTickets(t, n), n))}

\* one round of the loop of triggerAirdropsIfNeeded; the winners are the old
\* winners followed by the new ones; the last round is followed by the
\* commit and the release of the lock
TriggerRound(r) ==
    /\ stakeReq[r].pc = "rounds"
    /\ LET q == stakeReq[r]
           n == q.nPos
           airdropId == Len(airdrops) + 1
           t == Tickets(positions, n, PrevUnits(q))
       IN  \E dr \in RoundDraws(positions, n, t) :
             LET st0 == [bal |-> bal, ledger |-> ledger, positions |-> positions,
                         recipients |-> recipients, stats |-> q.stats]
                 st == Wins(Wins(st0, dr.old, 1, airdropId), dr.new, 1, airdropId)
             IN  /\ airdrops' = Append(airdrops,
                        [round |-> q.done + 1, trigger |-> NewEnd(q)])
                 /\ bal' = st.bal
                 /\ ledger' = st.ledger
                 /\ positions' = st.positions
                 /\ recipients' = st.recipients
                 /\ stakeReq' = [stakeReq EXCEPT ![r] =
                        IF q.p < q.pending
                        THEN [q EXCEPT !.p = @ + 1, !.done = @ + 1, !.stats = st.stats]
                        ELSE IF st.stats = NoStats THEN Idle
                        ELSE [pc |-> "award", stats |-> st.stats]]
    /\ UNCHANGED <<deposits, createReq, swapReq, scan, sweeper, rewardVars, referralVars,
                   splits, chainTx, sweepReq>>

\* the awardReferral call for one rewarded user after the commit
TriggerAward(r) ==
    /\ stakeReq[r].pc = "award"
    /\ LET q == stakeReq[r]
           u == CHOOSE x \in Users :
                   /\ q.stats[x].units > 0
                   /\ \A y \in Users : q.stats[y].units > 0 => x <= y
           left == [q.stats EXCEPT ![u] = NoStats[u]]
       IN  /\ refEvents' = awardReferral(refEvents, referrer, u, "staking_reward", "USDT",
                                         q.stats[u].units * STAKE_UNIT_USDT, q.stats[u].ids)
           /\ \A i \in DOMAIN refEvents' : i \in DOMAIN refEvents
                                           \/ RefLockFree(refReq, refEvents'[i].referrer)
           /\ stakeReq' = [stakeReq EXCEPT ![r] =
                  IF left = NoStats THEN Idle ELSE [q EXCEPT !.stats = left]]
    /\ UNCHANGED <<bal, ledger, deposits, createReq, swapReq, scan, sweeper, rewardVars,
                   referrer, useReq, refClaims, refReq, awardReq,
                   positions, airdrops, recipients, splits, chainTx, sweepReq>>

\* the awardReferral call has thrown: the error is caught and logged, and
\* the loop goes on to the next rewarded user
AwardThrown_rollback(aird, q, u) == SubSeq(aird, 1, Len(aird) - Len(q.stats[u].ids))

\* the round rows after an awardReferral call of the pass has thrown
AwardThrown(aird, q, u) == aird

TriggerAwardFailed(r) ==
    /\ stakeReq[r].pc = "award"
    /\ LET q == stakeReq[r]
           u == CHOOSE x \in Users :
                   /\ q.stats[x].units > 0
                   /\ \A y \in Users : q.stats[y].units > 0 => x <= y
           left == [q.stats EXCEPT ![u] = NoStats[u]]
       IN  /\ airdrops' = AwardThrown(airdrops, q, u)
           /\ stakeReq' = [stakeReq EXCEPT ![r] =
                  IF left = NoStats THEN Idle ELSE [q EXCEPT !.stats = left]]
    /\ UNCHANGED <<bal, ledger, deposits, createReq, swapReq, scan, sweeper, rewardVars,
                   referralVars, positions, recipients, splits, chainTx, sweepReq>>

StakeUnits == {1, 2, 58}
StakeMults == {DEFAULT_MULT}
SplitOutcomes == {"sent", "failed"}
FundUsdt == 2400

\* the staking user's funding deposit: the wallet is funded by one credited
\* deposit, swapped to VPK
FundDepositRead(u) == deposits = <<>> /\ CreateDepositRead(1, u)

NextStaking ==
    \/ \E u \in {1} : FundDepositRead(u)
    \/ CreateDepositInsert(1)
    \/ \E d \in 1..MaxDeposits : ServerCredit(d, FundUsdt)
    \/ \E u \in {1} : ServerSwap(u, "USDT", FundUsdt)
    \/ \E r \in StakeReqs, u \in {1}, units \in StakeUnits, mult \in StakeMults :
          StakeOpen(r, u, units, mult)
    \/ \E r \in StakeReqs, o \in SplitOutcomes : StakeSplit(r, o)
    \/ \E r \in StakeReqs : TriggerBegin(r)
    \/ \E r \in StakeReqs : TriggerTimeout(r)
    \/ \E r \in StakeReqs : TriggerRound(r)
    \/ \E r \in StakeReqs : TriggerAward(r)

SpecStaking == Init /\ [][NextStaking]_vars

(***************************************************************************)
(* Stake-open specification: a wallet that covers only a few units         *)
(***************************************************************************)
NextStakeOpen ==
    \/ FundDepositRead(1)
    \/ CreateDepositInsert(1)
    \/ \E d \in 1..MaxDeposits : ServerCredit(d, 20)
    \/ \E amt \in {5, 10, 20} : ServerSwap(1, "USDT", amt)
    \/ \E r \in StakeReqs, units \in {1, 2} : StakeOpen(r, 1, units, DEFAULT_MULT)
    \/ \E r \in StakeReqs, o \in SplitOutcomes : StakeSplit(r, o)
    \/ \E r \in StakeReqs : TriggerBegin(r)

SpecStakeOpen == Init /\ [][NextStakeOpen]_vars

\* Airdrop rounds over the positions of two users: user 1 is funded by a
\* deposit and user 2 by a reward credit, both swapped to VPK; one request
\* at a time opens a position and runs the trigger
AirdropStakes == {<<1, 58>>, <<2, 2>>, <<2, 58>>, <<1, 60>>}

NextAirdrop ==
    \/ FundDepositRead(1)
    \/ CreateDepositInsert(1)
    \/ \E d \in 1..MaxDeposits : ServerCredit(d, FundUsdt)
    \/ AdminCreateCredit(2, FundUsdt, 0, 0, FALSE)
    \/ ClaimBegin(1, 2, 1)
    \/ ClaimFinish(1)
    \/ \E u \in Actors : ServerSwap(u, "USDT", FundUsdt)
    \/ \E in \in AirdropStakes : StakeOpen(1, in[1], in[2], DEFAULT_MULT)
    \/ StakeSplit(1, "sent")
    \/ TriggerBegin(1)
    \/ TriggerRound(1)
    \/ TriggerAward(1)

SpecAirdrop == Init /\ [][NextAirdrop]_vars

\* Rounds of one staking user whose referrer is user 2: stakes that end
\* off the multiples of the trigger and a stake of two triggers at once
RoundStakes == {5, 58, 62, 120}

NextRounds ==
    \/ UseCodeRead(1, 1, 2)
    \/ UseCodeWrite(1)
    \/ FundDepositRead(1)
    \/ CreateDepositInsert(1)
    \/ \E d \in 1..MaxDeposits : ServerCredit(d, FundUsdt)
    \/ ServerSwap(1, "USDT", FundUsdt)
    \/ \E units \in RoundStakes : StakeOpen(1, 1, units, DEFAULT_MULT)
    \/ StakeSplit(1, "sent")
    \/ TriggerBegin(1)
    \/ TriggerRound(1)
    \/ TriggerAward(1)
    \/ TriggerAwardFailed(1)

SpecRounds == Init /\ [][NextRounds]_vars

(***************************************************************************)
(* The server's deposit sweep (sweepDepositToHotWallet), started by the    *)
(* post-credit trigger or by the sweep loop, and the hot wallet's other    *)
(* use, the stake split payments with their retry task                     *)
(***************************************************************************)
SetSweep(ds, d, st) == [ds EXCEPT ![d].sweep_status = st]

\* what the caller does with an attempt that threw: triggerDepositSweep
\* records sweep_status = 'failed', the sweep loop only logs
SweepThrown(ds, q) ==
    IF q.caller = "trigger" THEN SetSweep(ds, q.id, "failed") ELSE ds

\* the USDT is on the deposit address until a sweep has moved it
OnChain(ds, d) == ds[d].sweep_status # "swept"

FrameSweep == UNCHANGED <<bal, ledger, createReq, swapReq, scan, sweeper, rewardVars,
                          referralVars, stakingVars>>

\* the attempt starts: the loop's SELECT of the credited intents with
\* sweep_status NULL or 'failed', or the trigger after the credit
SweepBegin(caller, d) ==
    /\ sweepReq[caller] = Idle
    /\ d \in DOMAIN deposits
    /\ deposits[d].status = "credited"
    /\ deposits[d].sweep_status \in
          (IF caller = "loop" THEN {"null", "failed"} ELSE {"null"})
    /\ sweepReq' = [sweepReq EXCEPT ![caller] =
                        [pc |-> "selected", id |-> d, caller |-> caller]]
    /\ UNCHANGED deposits
    /\ FrameSweep

\* sweepDepositToHotWallet: the row read with its skips, and the UPDATE to
\* 'queued' WHERE sweep_status IS NULL OR IN ('failed','queued')
SweepQueue(c) ==
    /\ sweepReq[c].pc = "selected"
    /\ LET d == sweepReq[c].id
       IN  IF deposits[d].status # "credited" \/ deposits[d].sweep_status = "swept"
           THEN /\ sweepReq' = [sweepReq EXCEPT ![c] = Idle]     \* skipped
                /\ UNCHANGED deposits
           ELSE /\ deposits' = IF deposits[d].sweep_status \in {"null", "failed", "queued"}
                               THEN SetSweep(deposits, d, "queued") ELSE deposits
                /\ sweepReq' = [sweepReq EXCEPT ![c].pc = "queued"]
    /\ FrameSweep

\* the derived-address and on-chain balance checks, then UPDATE 'topping_up'
SweepCheck(c, outcome) ==
    /\ sweepReq[c].pc = "queued"
    /\ outcome = "ok" => OnChain(deposits, sweepReq[c].id)      \* else NO_USDT_ONCHAIN
    /\ IF outcome = "ok"
       THEN /\ deposits' = SetSweep(deposits, sweepReq[c].id, "topping_up")
            /\ sweepReq' = [sweepReq EXCEPT ![c].pc = "topping_up"]
       ELSE /\ deposits' = SweepThrown(deposits, sweepReq[c])   \* NO_USDT_ONCHAIN, mismatch
            /\ sweepReq' = [sweepReq EXCEPT ![c] = Idle]
    /\ FrameSweep

\* ensureDepositHasGas: the address has gas, or the hot wallet sends a
\* top-up, or the top-up needed is above the cap
SweepGas(c, outcome) ==
    /\ sweepReq[c].pc = "topping_up"
    /\ IF outcome = "enough"
       THEN /\ deposits' = SetSweep(deposits, sweepReq[c].id, "sweeping")
            /\ sweepReq' = [sweepReq EXCEPT ![c].pc = "sweeping"]
       ELSE IF outcome = "topup"
       THEN /\ UNCHANGED deposits
            /\ sweepReq' = [sweepReq EXCEPT ![c].pc = "hot_tx"]
       ELSE /\ deposits' = SweepThrown(deposits, sweepReq[c])   \* NEEDS_MANUAL_GAS_TOPUP
            /\ sweepReq' = [sweepReq EXCEPT ![c] = Idle]
    /\ FrameSweep

\* hot.sendTransaction and tx.wait(1) of the top-up end, then UPDATE 'sweeping'
SweepTopupDone(c, outcome) ==
    /\ sweepReq[c].pc = "hot_tx"
    /\ IF outcome = "ok"
       THEN /\ deposits' = SetSweep(deposits, sweepReq[c].id, "sweeping")
            /\ sweepReq' = [sweepReq EXCEPT ![c].pc = "sweeping"]
       ELSE /\ deposits' = SweepThrown(deposits, sweepReq[c])
            /\ sweepReq' = [sweepReq EXCEPT ![c] = Idle]
    /\ FrameSweep

\* the transfer from the deposit address and its wait, then UPDATE 'swept'
SweepTransfer(c, outcome) ==
    /\ sweepReq[c].pc = "sweeping"
    /\ outcome = "ok" => OnChain(deposits, sweepReq[c].id)      \* else the transfer reverts
    /\ deposits' = IF outcome = "ok" THEN SetSweep(deposits, sweepReq[c].id, "swept")
                   ELSE SweepThrown(deposits, sweepReq[c])
    /\ sweepReq' = [sweepReq EXCEPT ![c] = Idle]
    /\ FrameSweep

\* GET_LOCK('hotwallet_usdt_split'): free unless a split is being paid
SplitLockFree(reqs) == \A r \in DOMAIN reqs : reqs[r].pc # "splitting"

\* the split rows of a position that the retry task selects
RetryRows(sp, p) == {row \in sp : row.pos = p /\ row.status \in {"failed", "pending"}}

\* distributeStakeSplits after the stake-open: the lock is taken and the
\* rows are written as pending
SplitLock(r) ==
    /\ stakeReq[r].pc = "split"
    /\ SplitLockFree(stakeReq)
    /\ splits' = splits \cup {[pos |-> stakeReq[r].pos, status |-> "pending"]}
    /\ stakeReq' = [stakeReq EXCEPT ![r] = [pc |-> "splitting", pos |-> stakeReq[r].pos]]
    /\ UNCHANGED <<bal, ledger, deposits, createReq, swapReq, scan, sweeper, sweepReq,
                   rewardVars, referralVars, positions, airdrops, recipients, chainTx>>

\* GET_LOCK times out: HOTWALLET_SPLIT_LOCK_TIMEOUT is thrown before any row
\* is written, and the route logs it
SplitTimeout(r) ==
    /\ stakeReq[r].pc = "split"
    /\ ~SplitLockFree(stakeReq)
    /\ stakeReq' = [stakeReq EXCEPT ![r] = [pc |-> "airdrop"]]
    /\ UNCHANGED <<bal, ledger, deposits, createReq, swapReq, scan, sweeper, sweepReq,
                   rewardVars, referralVars, positions, airdrops, recipients, splits, chainTx>>

\* the transfers from the hot wallet are sent or fail, the rows are marked
\* and the lock is released
SplitSend(r, outcome) ==
    /\ stakeReq[r].pc = "splitting"
    /\ splits' = (splits \ RetryRows(splits, stakeReq[r].pos))
                     \cup {[pos |-> stakeReq[r].pos, status |-> RowStatus(outcome)]}
    /\ chainTx' = Broadcast(chainTx, stakeReq[r].pos, outcome)
    /\ stakeReq' = [stakeReq EXCEPT ![r] = [pc |-> "airdrop"]]
    /\ UNCHANGED <<bal, ledger, deposits, createReq, swapReq, scan, sweeper, sweepReq,
                   rewardVars, referralVars, positions, airdrops, recipients>>

\* the split retry task: a position with failed or pending rows is paid again
RetrySplit(p, outcome) ==
    /\ RetryRows(splits, p) # {}
    /\ SplitLockFree(stakeReq)
    /\ chainTx[p] < MaxSends
    /\ splits' = (splits \ RetryRows(splits, p)) \cup {[pos |-> p, status |-> RowStatus(outcome)]}
    /\ chainTx' = Broadcast(chainTx, p, outcome)
    /\ UNCHANGED <<bal, ledger, deposits, createReq, swapReq, scan, sweeper, sweepReq,
                   rewardVars, referralVars, positions, airdrops, recipients, stakeReq>>

NextHotWallet ==
    \/ (deposits = <<>> /\ CreateDepositRead(1, 1))
    \/ CreateDepositInsert(1)
    \/ \E d \in 1..MaxDeposits : ServerCredit(d, FundUsdt)
    \/ ServerSwap(1, "USDT", FundUsdt)
    \/ \E r \in StakeReqs : StakeOpen(r, 1, 1, DEFAULT_MULT)
    \/ \E r \in StakeReqs : SplitLock(r)
    \/ \E r \in StakeReqs : SplitTimeout(r)
    \/ \E r \in StakeReqs, outcome \in SplitOutcomes : SplitSend(r, outcome)
    \/ \E p \in 1..MaxPositions, outcome \in SplitOutcomes : RetrySplit(p, outcome)
    \/ \E r \in StakeReqs : TriggerBegin(r)
    \/ \E caller \in SweepCallers, d \in 1..MaxDeposits : SweepBegin(caller, d)
    \/ \E c \in SweepCallers : SweepQueue(c)
    \/ \E c \in SweepCallers, outcome \in {"ok", "throw"} : SweepCheck(c, outcome)
    \/ \E c \in SweepCallers, outcome \in {"enough", "topup", "throw"} : SweepGas(c, outcome)
    \/ \E c \in SweepCallers, outcome \in {"ok", "throw"} : SweepTopupDone(c, outcome)
    \/ \E c \in SweepCallers, outcome \in {"ok", "throw"} : SweepTransfer(c, outcome)

SpecHotWallet == Init /\ [][NextHotWallet]_vars

\* Split payments with the three ends of a transfer attempt: sent, failed
\* before the broadcast, and broadcast with the wait for its confirmation
\* failed
SendOutcomes == {"sent", "failed", "unconfirmed"}

NextSplit ==
    \/ FundDepositRead(1)
    \/ CreateDepositInsert(1)
    \/ \E d \in 1..MaxDeposits : ServerCredit(d, FundUsdt)
    \/ ServerSwap(1, "USDT", FundUsdt)
    \/ \E r \in StakeReqs : StakeOpen(r, 1, 1, DEFAULT_MULT)
    \/ \E r \in StakeReqs : SplitLock(r)
    \/ \E r \in StakeReqs : SplitTimeout(r)
    \/ \E r \in StakeReqs, outcome \in SendOutcomes : SplitSend(r, outcome)
    \/ \E p \in 1..MaxPositions, outcome \in SendOutcomes : RetrySplit(p, outcome)
    \/ \E r \in StakeReqs : TriggerBegin(r)

SpecSplit == Init /\ [][NextSplit]_vars

(***************************************************************************)
(* Concurrent deposit-intent creation, with the credit of the intents      *)
(***************************************************************************)
CreateUsers == {1, 2}

NextCreate ==
    \/ \E r \in {1, 2}, u \in CreateUsers : CreateIntentRead(r, u, MaxIntents)
    \/ \E r \in {1, 2} : CreateIntentInsert(r, MaxIntents)
    \/ \E d \in 1..MaxIntents : ServerCredit(d, 30)

SpecCreate == Init /\ [][NextCreate]_vars

(***************************************************************************)
(* Claims                                                                  *)
(***************************************************************************)

\* C1: in every reachable state each user's stored balance of each asset
\* equals the signed sum of that user's ledger entries for the asset, the
\* sign of an entry being determined by its type only.
C1_BalanceIsSignedLedgerSum ==
    \A u \in Users, a \in Assets : bal[<<u, a>>] = LedgerBalance(ledger, u, a)

\* C5: no balance is ever negative after a system-issued debit, also when
\* several debiting requests of the same user and asset run concurrently.
C5_NoNegativeBalance ==
    \A u \in Users, a \in Assets : bal[<<u, a>>] >= 0

\* C2: for every deposit intent at most one ledger row of type deposit
\* carries the intent's id as ref, whatever credit paths ran and however
\* they interleaved (each such row comes with one balance increase).
C2_AtMostOneDepositRow ==
    \A d \in DOMAIN deposits : RowCount(ledger, "deposit", NumRef(d)) <= 1

StatusRank(st) ==
    CASE st = "pending" -> 0
      [] st = "seen" -> 1
      [] st = "confirming" -> 2
      [] st = "confirmed" -> 2
      [] st = "credited" -> 3
      [] st = "sweeping" -> 3
      [] st = "swept" -> 4

\* C9: the status of a deposit intent only moves forward along pending,
\* seen, confirming, credited, swept; in particular no step takes an intent
\* from credited or swept back to an earlier status.
C9_StatusOnlyForward ==
    [][\A d \in DOMAIN deposits :
          StatusRank(deposits[d].status) <= StatusRank(deposits'[d].status)]_vars

NoDepositRow(l, d) == RowCount(l, "deposit", NumRef(d)) = 0

\* C10: when the watcher processes a transfer log for an intent that has no
\* deposit ledger row yet, a log with fewer confirmations than required
\* leaves the intent confirming and without a ledger row, and a log with at
\* least the required confirmations is followed by the credit, which leaves
\* the intent credited with exactly one deposit ledger row.
C10_FactThreshold ==
    [][/\ (scan.pc = "update" /\ scan' # scan) =>
            LET log == scan.logs[scan.i]
                d == log.dep
            IN  (log.amount > 0 /\ NoDepositRow(ledger, d)) =>
                  /\ deposits'[d].status = "confirming"
                  /\ NoDepositRow(ledger', d)
                  /\ IF log.conf < deposits[d].req
                     THEN scan' = ScanAdvance(scan)
                     ELSE scan' = [scan EXCEPT !.pc = "credit"]
       /\ (scan.pc = "credit" /\ scan' # scan) =>
            LET d == scan.logs[scan.i].dep
            IN  NoDepositRow(ledger, d) =>
                  /\ deposits'[d].status = "credited"
                  /\ RowCount(ledger', "deposit", NumRef(d)) = 1
      ]_vars

\* the watcher has credited the first log of its batch, which carried the
\* required confirmations, and the intent is credited with a single row
C10_Witness ==
    /\ scan.pc = "update"
    /\ scan.i = 2
    /\ LET log == scan.logs[1]
       IN  /\ log.conf >= deposits[log.dep].req
           /\ deposits[log.dep].status = "credited"
           /\ deposits[log.dep].conf = log.conf
           /\ RowCount(ledger, "deposit", NumRef(log.dep)) = 1

RECURSIVE SumClaimed(_, _, _)
SumClaimed(cr, l, S) ==
    IF S = {} THEN 0
    ELSE LET id == CHOOSE x \in S : TRUE
         IN  RowCount(l, "reward_credit", creditRefId(id)) * cr[id].amount
             + SumClaimed(cr, l, S \ {id})

\* C3: whatever claim requests ran on a reward credit, one after the other
\* or concurrently, the ledger holds at most one reward_credit row for it,
\* exactly one once it is claimed, and the owner's USDT balance has received
\* the credit's amount once per such row and nothing else beyond deposits.
C3_ClaimCreditsOnce ==
    /\ \A id \in DOMAIN credits :
          /\ RowCount(ledger, "reward_credit", creditRefId(id)) <= 1
          /\ credits[id].status = "claimed" =>
                RowCount(ledger, "reward_credit", creditRefId(id)) = 1
    /\ \A u \in Users :
          bal[<<u, "USDT">>] =
              getDepositTotals(ledger, u)
              + SumClaimed(credits, ledger, {id \in DOMAIN credits : credits[id].user = u})

\* a credit is claimed and paid once while a second claim request, whose
\* snapshot still shows the credit claimable and unpaid, is in flight
C3_Witness ==
    \E r \in ClaimReqs, id \in DOMAIN credits :
        /\ claimReq[r].pc = "run"
        /\ claimReq[r].id = id
        /\ claimReq[r].user = credits[id].user
        /\ id \in DOMAIN claimReq[r].snapCr
        /\ claimReq[r].snapCr[id].status = "claimable"
        /\ ~ClaimAlready(claimReq[r].snapL, credits[id].user, id)
        /\ credits[id].status = "claimed"
        /\ RowCount(ledger, "reward_credit", creditRefId(id)) = 1
        /\ bal[<<credits[id].user, "USDT">>] =
              getDepositTotals(ledger, credits[id].user) + credits[id].amount

FlippedBy(ev, k, asset) ==
    SumEvents(ev, {i \in DOMAIN ev : ev[i].claim = k /\ ev[i].asset = asset})

RECURSIVE SumClaims(_, _)
SumClaims(cl, S) ==
    IF S = {} THEN 0
    ELSE LET k == CHOOSE x \in S : TRUE
         IN  cl[k].amount + SumClaims(cl, S \ {k})

\* C4: referral claims of one user, however they overlap, never pay an event
\* twice: an event is credited by exactly one claim of its referrer, the
\* amount of every claim is the sum of the events it flipped (USDT plus PHP
\* at the PHP rate), that amount is what its one ledger row carries, and the
\* balance has received the claims' amounts and nothing more.
C4_NoDoublePay ==
    /\ \A i \in DOMAIN refEvents :
          IF refEvents[i].status = "credited"
          THEN /\ refEvents[i].claim \in DOMAIN refClaims
               /\ refClaims[refEvents[i].claim].user = refEvents[i].referrer
          ELSE refEvents[i].status = "pending" /\ refEvents[i].claim = 0
    /\ \A k \in DOMAIN refClaims :
          /\ refClaims[k].amount =
                FlippedBy(refEvents, k, "USDT")
                + FlippedBy(refEvents, k, "PHP") \div USDT_PHP_RATE
          /\ ledger[Row(refClaims[k].user, "USDT", "referral_bonus",
                        refClaims[k].amount, NumRef(k))] = 1
          /\ RowCount(ledger, "referral_bonus", NumRef(k)) = 1
    /\ \A u \in Users :
          bal[<<u, "USDT">>] =
              SumClaims(refClaims, {k \in DOMAIN refClaims : refClaims[k].user = u})

\* a first claim of a user has paid its events and a second claim of the
\* same user holds the locks with nothing pending left to pay
C4_Witness ==
    \E r \in RefReqs, k \in DOMAIN refClaims :
        /\ refReq[r].pc = "locked"
        /\ refReq[r].user = refClaims[k].user
        /\ refClaims[k].amount > 0
        /\ refReq[r].pendingUSDT = 0
        /\ refReq[r].pendingPHP = 0
        /\ \E i \in DOMAIN refEvents : refEvents[i].claim = k

RecipientsOf(rc, p) == {j \in DOMAIN rc : rc[j].pos = p}

RECURSIVE SumRecipients(_, _)
SumRecipients(rc, S) ==
    IF S = {} THEN 0
    ELSE LET j == CHOOSE x \in S : TRUE
         IN  rc[j].amount + SumRecipients(rc, S \ {j})

C8_ActiveIffBelowCap ==
    \A p \in DOMAIN positions :
        /\ positions[p].status = "active" <=> positions[p].credited < positions[p].cap
        /\ positions[p].status = "completed" <=> positions[p].credited = positions[p].cap

\* C11: a deposit credit applied a second time after the first application
\* committed commits as a no-op: it ends with the skip outcome, not with an
\* error, and leaves balances, ledger and intents as the first left them;
\* for the server's credit function and for the mock routes' one.
C11_ReapplyIsNoOp ==
    \A d \in DOMAIN deposits, amount \in {NULL} \cup LogAmounts :
        /\ LET s1 == creditDepositAndWebhook(bal, ledger, deposits, d, amount)
           IN  CreditOutcome(ledger, deposits, d, amount) \in {"credited", "skip"}
               => /\ creditDepositAndWebhook(s1.bal, s1.ledger, s1.deposits, d, amount) = s1
                  /\ CreditOutcome(s1.ledger, s1.deposits, d, amount) = "skip"
        /\ amount # NULL
           => LET m1 == creditWalletTxDb(bal, ledger, deposits, d, amount, BSC_REQUIRED_CONFS)
              IN  /\ creditWalletTxDb(m1.bal, m1.ledger, m1.deposits, d, amount,
                                      BSC_REQUIRED_CONFS) = m1
                  /\ MockCreditOutcome(m1.ledger, m1.deposits, d) = "skip"

\* an intent whose credit committed, and another application is possible
C11_Witness ==
    \E d \in DOMAIN deposits :
        /\ deposits[d].status = "credited"
        /\ RowCount(ledger, "deposit", NumRef(d)) = 1
        /\ bal[<<deposits[d].user, "USDT">>] >= deposits[d].amt
        /\ LedgerSize < MaxLedger

\* C12: every ledger row stores a positive amount; the direction of an
\* entry is carried by its type alone.
C12_LedgerAmountsPositive ==
    \A row \in BagToSet(ledger) : row.amount > 0

OldTickets(t, n) == [i \in 1..n |-> t[i].old]

\* C15: whatever a round draws, it draws at most AIRDROP_REWARD_UNITS
\* winning tickets, at most NEW_PICK of them from the new pool, from no
\* position more tickets than the position holds in the pool, and from the
\* old pool no ticket of a user who has a winning ticket from the new pool.
C15_DrawBounds ==
    \A r \in StakeReqs :
        stakeReq[r].pc = "rounds" =>
            LET n == stakeReq[r].nPos
                t == Tickets(positions, n, PrevUnits(stakeReq[r]))
            IN  \A dr \in RoundDraws(positions, n, t) :
                    /\ SumF(dr.new, n) + SumF(dr.old, n) <= AIRDROP_REWARD_UNITS
                    /\ SumF(dr.new, n) <= NEW_PICK
                    /\ \A i \in 1..n : /\ dr.new[i] <= t[i].new
                                       /\ dr.old[i] <= t[i].old
                    /\ \A i, j \in 1..n :
                           (dr.old[i] > 0 /\ dr.new[j] > 0)
                           => positions[i].user # positions[j].user

\* a round has credited AIRDROP_REWARD_UNITS winning tickets of two users,
\* and a round is about to draw from an old pool holding tickets of both
C15_Witness ==
    /\ \E a \in DOMAIN airdrops :
          /\ Cardinality({j \in DOMAIN recipients : recipients[j].airdrop = a})
                = AIRDROP_REWARD_UNITS
          /\ \E j, k \in DOMAIN recipients :
                /\ recipients[j].airdrop = a /\ recipients[k].airdrop = a
                /\ recipients[j].user # recipients[k].user
    /\ \E r \in StakeReqs :
          /\ stakeReq[r].pc = "rounds"
          /\ LET n == stakeReq[r].nPos
                 t == Tickets(positions, n, PrevUnits(stakeReq[r]))
             IN  \E i, j \in 1..n : /\ t[i].old > 0 /\ t[j].old > 0
                                    /\ positions[i].user # positions[j].user

EventKey(e) == <<e.referee, e.referrer, e.type, e.src>>

\* C17: at most one referral event row exists per (referee, referrer, type,
\* source_ref), whatever the repeated, failed or overlapping awardReferral
\* calls for one event; a call only adds rows whose key is still missing and
\* leaves every existing row as it is
C17_OneEventRowPerKey ==
    [][refEvents' # refEvents =>
       /\ \A i, j \in DOMAIN refEvents' :
              EventKey(refEvents'[i]) = EventKey(refEvents'[j]) => i = j
       /\ Len(refEvents') >= Len(refEvents)
       /\ \A i \in DOMAIN refEvents : refEvents'[i] = refEvents[i]
       /\ \A i \in DOMAIN refEvents' \ DOMAIN refEvents :
              \A j \in DOMAIN refEvents :
                  EventKey(refEvents[j]) # EventKey(refEvents'[i])]_vars

\* two calls for the same event both read an empty set of existing rows and
\* both ran their whole insert loop over two or more beneficiaries
C17_Witness ==
    /\ awardReq[1] # Idle /\ awardReq[2] # Idle
    /\ awardReq[1].pc = "done" /\ awardReq[2].pc = "done"
    /\ awardReq[1].type = awardReq[2].type
    /\ awardReq[1].existing = {} /\ awardReq[2].existing = {}
    /\ Len(awardReq[1].events) >= 2 /\ Len(awardReq[2].events) >= 2

\* the rows of referral_events of one triggering event
EventRows(ev, refereeId, type, sourceRef) ==
    {i \in DOMAIN ev : ev[i].referee = refereeId /\ ev[i].type = type
                       /\ ev[i].src = sourceRef}

\* a call of awardReferral that found lvl1, lvl2, lvl3 and the company, was
\* the first for its event and ran to its return
AllPresentDone(q) ==
    /\ q # Idle
    /\ q.pc = "done"
    /\ q.existing = {}
    /\ q.company > 0
    /\ q.chain[1] # 0 /\ q.chain[2] # 0 /\ q.chain[3] # 0

\* C18: when level 1, level 2, level 3 and the company are all present, the
\* commission amounts of the rows of the event add up to the pool,
\* base amount times the rate of the type, within one rounding unit per row
C18_RowsSumToPool ==
    \A r \in AwardReqs :
        LET q == awardReq[r]
        IN  IF AllPresentDone(q)
            THEN LET sum == SumEvents(refEvents,
                                EventRows(refEvents, q.referee, q.type, q.src))
                     rate == TotalRate(q.type)
                     diff == sum * rate[2] - q.base * rate[1]
                 IN  /\ diff <= 2 * rate[2]
                     /\ 0 - diff <= 2 * rate[2]
            ELSE TRUE

\* the nominal share of the pool of a call for a weight, over the full base
NominalShare(q, share) ==
    RoundDiv(q.base * TotalRate(q.type)[1] * share, TotalRate(q.type)[2] * TOTAL_SHARE)

\* the commission the call computed for lvl1, lvl2, lvl3 (k = 1, 2, 3) or the
\* company (k = 4); 0 when it pushed no event for it
ComputedShare(q, k) ==
    SumEvents(q.events, {i \in DOMAIN q.events : q.events[i].level = k})

\* the nominal shares of the levels whose upline user is absent
AbsentShares(chain) ==
    (IF chain[1] = 0 THEN LVL_SHARE[1] ELSE 0) + (IF chain[2] = 0 THEN LVL_SHARE[2] ELSE 0)
    + (IF chain[3] = 0 THEN LVL_SHARE[3] ELSE 0)

\* C19: with a company recipient configured, every present level is awarded
\* its own nominal share, the company is awarded its own share plus the
\* nominal shares of all absent levels, and the shares add up to the pool
\* within one rounding unit per beneficiary
C19_AbsentSharesRollUpToCompany ==
    \A r \in AwardReqs :
        LET q == awardReq[r]
        IN  IF q # Idle
            THEN q.company > 0 =>
                 /\ \A k \in 1..3 :
                        ComputedShare(q, k) =
                            IF q.chain[k] # 0 THEN NominalShare(q, LVL_SHARE[k]) ELSE 0
                 /\ ComputedShare(q, 4) =
                        NominalShare(q, COMPANY_SHARE + AbsentShares(q.chain))
                 /\ LET rate == TotalRate(q.type)
                        diff == SumEvents(q.events, DOMAIN q.events) * rate[2]
                                    - q.base * rate[1]
                    IN  diff <= 2 * rate[2] /\ 0 - diff <= 2 * rate[2]
            ELSE TRUE

\* a completed call with level 1 present and levels 2 and 3 absent: the
\* stored company row carries the company, level-2 and level-3 shares and
\* the stored level-1 row carries the level-1 share only
C19_Witness ==
    \E r \in AwardReqs :
        LET q == awardReq[r]
        IN  /\ q # Idle
            /\ q.pc = "done" /\ q.company > 0
            /\ q.chain[1] # 0 /\ q.chain[2] = 0 /\ q.chain[3] = 0
            /\ \E i, j \in EventRows(refEvents, q.referee, q.type, q.src) :
                   /\ refEvents[i].referrer = q.chain[1]
                   /\ refEvents[i].amount = NominalShare(q, LVL_SHARE[1])
                   /\ refEvents[j].referrer = q.company
                   /\ refEvents[j].amount =
                          NominalShare(q, COMPANY_SHARE + LVL_SHARE[2] + LVL_SHARE[3])
                   /\ refEvents[j].amount > NominalShare(q, COMPANY_SHARE)

\* C20: with no company recipient and some level absent, every present level
\* is awarded only its nominal share (its weight over the full base of 10),
\* so the shares of the call add up to less than the pool
C20_NominalSharesWithoutCompany ==
    \A r \in AwardReqs :
        LET q == awardReq[r]
        IN  IF q # Idle
            THEN (q.company = 0 /\ AbsentShares(q.chain) > 0) =>
                 /\ \A k \in 1..3 :
                        ComputedShare(q, k) =
                            IF q.chain[k] # 0 THEN NominalShare(q, LVL_SHARE[k]) ELSE 0
                 /\ SumEvents(q.events, DOMAIN q.events) * TotalRate(q.type)[2]
                        < q.base * TotalRate(q.type)[1]
            ELSE TRUE

\* C21: the statuses claimed, expired and cancelled of a reward credit are
\* terminal: no step changes the status of a credit that is in one of them
C21_TerminalStatuses ==
    [][\A i \in DOMAIN credits :
          credits[i].status \in {"claimed", "expired", "cancelled"}
              => credits'[i].status = credits[i].status]_vars

\* C22: a claim request changes the balance and appends a ledger row only
\* if the credit row it locked is the user's, has status claimable (after
\* the evaluation the request itself ran) and is not expired; then it adds
\* the credit's amount and one reward_credit row; in every other case
\* balances and ledger stay as they were
C22_ClaimOnlyWhenClaimable ==
    [][\A r \in ClaimReqs :
          (claimReq[r] # Idle /\ claimReq'[r] = Idle) =>
              LET q == claimReq[r]
                  rows == evaluateRewardCreditsForUser(q.snapCr, credits, q.snapL,
                                                       q.snapRef, q.user)
                  ok == /\ q.id \in DOMAIN credits
                        /\ credits[q.id].user = q.user
                        /\ rows[q.id].status = "claimable"
                        /\ ~credits[q.id].expired
              IN  IF bal' # bal \/ ledger' # ledger
                  THEN /\ ok
                       /\ bal' = [bal EXCEPT ![<<q.user, "USDT">>] = @ + credits[q.id].amount]
                       /\ BagCardinality(ledger') = BagCardinality(ledger) + 1
                       /\ credits'[q.id].status = "claimed"
                  ELSE TRUE]_vars

\* a credit was claimed and paid, and a request is in flight for a credit
\* that is claimed, expired or still locked
C22_Witness ==
    /\ \E i \in DOMAIN credits :
          /\ credits[i].status = "claimed"
          /\ RowCount(ledger, "reward_credit", creditRefId(i)) = 1
    /\ \E r \in ClaimReqs :
          /\ claimReq[r] # Idle
          /\ claimReq[r].id \in DOMAIN credits
          /\ \/ credits[claimReq[r].id].status \in {"claimed", "expired", "locked"}
             \/ credits[claimReq[r].id].expired

\* the deposit condition and the referral-deposit condition of a credit, on
\* a ledger and a referral tree
BothConditionsHold(c, l, ref) ==
    /\ c.depMin > 0 => getDepositTotals(l, c.user) >= c.depMin
    /\ c.refMin > 0 =>
          Cardinality({v \in Users : ref[v] = c.user
                          /\ getDepositTotals(l, v) >= REFEREE_DEPOSIT_MIN}) >= c.refMin

\* C23: after an evaluation pass for a user, every credit of the user that
\* the pass read as locked or claimable and not expired, and that no other
\* request changed meanwhile, is claimable exactly if its deposit condition
\* and its referral-deposit condition both hold on the data the pass read
C23_ClaimableIffConditions ==
    [][(evalReq.pc = "run" /\ evalReq'.pc = "done") =>
          \A i \in DOMAIN evalReq.snapCr :
              LET c == evalReq.snapCr[i]
              IN  (/\ c.user = evalReq.user
                   /\ c.status \in {"locked", "claimable"}
                   /\ ~c.expired
                   /\ credits[i].status = c.status)
                  => (credits'[i].status = "claimable"
                        <=> BothConditionsHold(c, evalReq.snapL, evalReq.snapRef))]_vars

\* a pass has just flipped to claimable a credit that needs two qualifying
\* referrals and that it read as locked
C23_Witness ==
    /\ evalReq.pc = "done"
    /\ \E i \in DOMAIN evalReq.snapCr :
          /\ evalReq.snapCr[i].status = "locked"
          /\ evalReq.snapCr[i].refMin = 2
          /\ credits[i].status = "claimable"
          /\ Cardinality({v \in Users : evalReq.snapRef[v] = evalReq.user
                 /\ getDepositTotals(evalReq.snapL, v) >= REFEREE_DEPOSIT_MIN}) = 2

\* C24: an evaluation pass never changes the status of a claimed credit,
\* also when the claim commits between the pass's read of the credit and
\* its UPDATE; stated for every step that is not the end of a claim request
C24_PassKeepsClaimed ==
    [][claimReq' = claimReq =>
          \A i \in DOMAIN credits :
              credits[i].status = "claimed" => credits'[i].status = "claimed"]_vars

\* a pass read a credit as locked or claimable, the claim of the credit
\* committed, and the pass has run its UPDATEs
C24_Witness ==
    /\ evalReq.pc = "done"
    /\ \E i \in DOMAIN evalReq.snapCr :
          /\ evalReq.snapCr[i].user = evalReq.user
          /\ evalReq.snapCr[i].status \in {"locked", "claimable"}
          /\ credits[i].status = "claimed"

\* the part of an intent's lifecycle from the credit on
CreditedPart == {"credited", "sweeping", "swept"}

\* C25: a step of a sweep attempt changes no wallet balance and no ledger
\* row and takes no intent out of the credited part of its lifecycle, and
\* when an attempt that broadcast its transfer ends, the intent is swept
\* (success) or at credited (failure)
C25_SweepKeepsCredit ==
    [][(sweeper.pc \in {"sweep", "wait"} /\ sweeper' # sweeper) =>
          /\ bal' = bal
          /\ ledger' = ledger
          /\ \A d \in DOMAIN deposits :
                deposits[d].status \in CreditedPart => deposits'[d].status \in CreditedPart
          /\ sweeper.pc = "wait" =>
                deposits'[Head(sweeper.rows).id].status \in {"credited", "swept"}]_vars

\* C26: a sweep attempt that ends without having swept the intent, at
\* whichever step and from whichever caller, leaves sweep_status = 'failed',
\* the status the periodic sweep scan selects again.
C26_FailedSweepMarkedFailed ==
    [][\A c \in SweepCallers :
          (sweepReq[c] # Idle /\ sweepReq'[c] = Idle
             /\ deposits'[sweepReq[c].id].sweep_status # "swept")
          => deposits'[sweepReq[c].id].sweep_status = "failed"]_vars

\* the hot-wallet transactions being signed and sent: the transfers of a
\* split in progress and the gas top-up of a sweep in progress
HotWalletSenders ==
    Cardinality({r \in StakeReqs : stakeReq[r].pc = "splitting"})
        + Cardinality({c \in SweepCallers : sweepReq[c].pc = "hot_tx"})

\* C28: the uses of the hot-wallet signing key for stake splits and for the
\* gas top-ups of sweeps are serialized: at no time are two hot-wallet
\* transactions being signed and sent concurrently.
C28_HotWalletSerialized == HotWalletSenders <= 1

\* the request that opened position p has not left its split payment yet
SplitInProgress(p) ==
    \E r \in StakeReqs : stakeReq[r].pc \in {"split", "splitting"} /\ stakeReq[r].pos = p

\* C29: a split payment that failed after a stake-open is attempted again
\* later by the retry task: once the request has left the split payment, the
\* position's split is paid or has a row the retry task selects.
C29_FailedSplitRetried ==
    \A p \in 1..Len(positions) :
        ~SplitInProgress(p) => \E row \in splits : row.pos = p

\* C27: every deposit intent is bound to a derivation index, hence an
\* address, that no other intent has, also when two creation requests run
\* concurrently.
C27_UniqueAddressIndex ==
    \A i, j \in DOMAIN deposits : i # j => deposits[i].idx # deposits[j].idx

\* C30: an intent's amount_received is fixed by the first fact that reports
\* an amount: no later fact or credit, with the same or a different observed
\* amount, changes it, while every fact the watcher applies sets
\* confirmations to the fact's confirmations.
C30_AmountFixedByFirstFact ==
    [][\A d \in DOMAIN deposits :
          /\ deposits[d].amt # NULL => deposits'[d].amt = deposits[d].amt
          /\ (scan.pc = "update" /\ scan' # scan /\ scan.logs[scan.i].dep = d
                /\ scan.logs[scan.i].amount > 0)
             => /\ deposits'[d].conf = scan.logs[scan.i].conf
                /\ deposits[d].amt = NULL => deposits'[d].amt = scan.logs[scan.i].amount]_vars

\* a second fact with another amount and more confirmations has been
\* applied: the amount is the first fact's, the confirmations the second's
C30_Witness ==
    /\ scan.pc = "credit"
    /\ LET log == scan.logs[scan.i]
       IN  /\ deposits[log.dep].amt # NULL
           /\ deposits[log.dep].amt # log.amount
           /\ deposits[log.dep].conf = log.conf

\* the stake_lock rows of the ledger
StakeLockRows(l) == BagCardinality([x \in {y \in DOMAIN l : y.type = "stake_lock"} |-> l[x]])

\* C31: a stake-open never debits a balance below the required amount, and
\* its debit, its stake_lock ledger row and its active position with
\* cap_total = N * unit * multiplier happen all in one step or not at all:
\* any step that makes one of the three makes all three.
C31_StakeOpenAllOrNothing ==
    [][(\/ Len(positions') # Len(positions)
        \/ StakeLockRows(ledger') # StakeLockRows(ledger)
        \/ \E u \in Users : bal'[<<u, "VPK">>] < bal[<<u, "VPK">>])
       => /\ Len(positions') = Len(positions) + 1
          /\ LET posId == Len(positions')
                 p == positions'[posId]
                 stakeVpk == p.units * STAKE_UNIT_VPK
             IN  /\ p.status = "active"
                 /\ p.credited = 0
                 /\ p.cap = p.units * STAKE_UNIT_USDT * p.mult
                 /\ bal[<<p.user, "VPK">>] >= stakeVpk
                 /\ bal' = [bal EXCEPT ![<<p.user, "VPK">>] = @ - stakeVpk]
                 /\ ledger' = Append1(ledger,
                        Row(p.user, "VPK", "stake_lock", stakeVpk, NumRef(posId)))
                 /\ \A i \in 1..Len(positions) : positions'[i] = positions[i]]_vars

\* positions were opened until the balance no longer covers one unit, so
\* that every further request is refused; the ledger holds one stake_lock
\* row per position
C31_Witness ==
    /\ Len(positions) >= 1
    /\ StakeLockRows(ledger) = Len(positions)
    /\ bal[<<1, "VPK">>] < STAKE_UNIT_VPK
    /\ bal[<<1, "USDT">>] = 0

\* a request is making or has just failed an awardReferral call of its pass
AwardStep == \E r \in StakeReqs : stakeReq[r].pc = "award" /\ stakeReq'[r] # stakeReq[r]

\* C32: the Referral Engine is invoked for a round's winners only after the
\* pass has committed (the request is past its rounds), and an award call,
\* failed or not, leaves the round rows, recipient rows, balances, ledger
\* rows and positions of the round as they were committed.
C32_AwardAfterCommitKeepsRound ==
    [][(AwardStep \/ refEvents' # refEvents)
       => /\ AwardStep
          /\ UNCHANGED <<airdrops, recipients, bal, ledger, positions>>]_vars

\* a round with winners is committed, the award call for the winner, who has
\* a referrer, has failed, and the round's rows are there
C32_Witness ==
    /\ stakeReq[1] = Idle
    /\ referrer[1] = 2
    /\ Len(airdrops) >= 1
    /\ \E j \in DOMAIN recipients : recipients[j].airdrop = Len(airdrops)
    /\ refEvents = <<>>

\* what user u was credited in round a
CreditedInRound(u, a) ==
    SumRecipients(recipients,
                  {j \in DOMAIN recipients : recipients[j].airdrop = a /\ recipients[j].user = u})

\* C33: every awardReferral call of a pass is for one round and one winning
\* user of it, with the base amount the user was credited in that round,
\* also when the pass has processed several rounds.
C33_OneAwardPerRoundWinner ==
    \A r \in StakeReqs :
        stakeReq[r].pc = "award" =>
            \A u \in Users :
                stakeReq[r].stats[u].units > 0 =>
                    /\ Len(stakeReq[r].stats[u].ids) = 1
                    /\ stakeReq[r].stats[u].units * STAKE_UNIT_USDT
                         = CreditedInRound(u, stakeReq[r].stats[u].ids[1])

\* the new window (prevUnits, prevUnits + TRIGGER_UNITS] of a processed
\* round, from its trigger_units = newEnd
NewWindow(a) ==
    {i \in 1..(MaxPositions * 120) :
        i > Max(0, a.trigger - AIRDROP_TRIGGER_UNITS) /\ i <= a.trigger}

\* C35: over all rounds ever processed the new windows are pairwise
\* disjoint and contiguous: the new window of round k is the unit indices
\* ((k-1) * TRIGGER_UNITS, k * TRIGGER_UNITS].
C35_NewWindowsPartitionUnits ==
    \A k \in DOMAIN airdrops :
        NewWindow(airdrops[k]) =
            {i \in 1..(MaxPositions * 120) :
                i > (k - 1) * AIRDROP_TRIGGER_UNITS /\ i <= k * AIRDROP_TRIGGER_UNITS}

\* C34: in every reachable state a deposit intent has status credited or a
\* later status if and only if exactly one deposit ledger row exists for it.
C34_CreditedIffOneRow ==
    \A d \in DOMAIN deposits :
        StatusRank(deposits[d].status) >= StatusRank("credited")
            <=> RowCount(ledger, "deposit", NumRef(d)) = 1

\* C36: a user's referrer is attached at most once and is never the user
\* themself: once stored, the referrer of a user never changes, also when
\* two use-code requests of the user run concurrently.
C36_ReferrerAttachedOnce ==
    [][\A u \in Users :
          /\ referrer'[u] # u
          /\ referrer[u] # 0 => referrer'[u] = referrer[u]]_vars

\* the upline users of a referee, levels 1 to 3, as awardReferral resolves them
Upline(u) == {UplineChain(referrer, u)[k] : k \in 1..3} \ {0}

UplineLevels(u) == {k \in 1..3 : UplineChain(referrer, u)[k] # 0}

\* C39: the referral relation is acyclic: for every referee of an
\* awardReferral call the referee is not among the level-1 to level-3 upline
\* users, and the upline users are pairwise distinct.
C39_UplineAcyclic ==
    \A u \in Users :
        /\ u \notin Upline(u)
        /\ Cardinality(Upline(u)) = Cardinality(UplineLevels(u))

\* C37: for every stake position the split amount is sent on-chain at most
\* once over the initial attempt and all later retries, also when the
\* transaction was broadcast and waiting for its confirmation failed.
C37_SplitSentAtMostOnce == \A p \in DOMAIN chainTx : chainTx[p] <= 1

\* C38: once an intent's sweep_status is 'swept' it never changes again,
\* also when the post-credit trigger and the sweep loop work on the same
\* intent and one of them fails after the other has swept
C38_SweptIsFinal ==
    [][\A d \in DOMAIN deposits :
          deposits[d].sweep_status = "swept" => deposits'[d].sweep_status = "swept"]_vars

\* C40: for every reward credit and every notification stage (assigned,
\* eligible, credited) at most one email is sent over all notifier calls,
\* concurrent calls included
C40_OneEmailPerStage ==
    \A i \in DOMAIN emails : \A st \in Stages : emails[i][st] <= 1

====
